---- MODULE Spec2Model ----
(***************************************************************************)
(* Model of the MCP proxy core: RequestForwarder (forwarding with retry),  *)
(* ResponseAggregator (concurrent discovery fan-out), Router and the       *)
(* MCPProxyServer gateway (handleRequest).                                 *)
(*                                                                         *)
(* Strings of the program are TLA+ strings; an absent (undefined) value is *)
(* the string "undefined".  A JSON value received from a backend is a      *)
(* record that carries its JavaScript type and the set of keys it has, so  *)
(* that `'result' in data` and `typeof` are checks the model performs.     *)
(***************************************************************************)
EXTENDS Integers, Sequences, FiniteSets, TLC

VARIABLES fwd, agg, gw, router, merge, route, eh

vars == <<fwd, agg, gw, router, merge, route, eh>>

(***************************************************************************)
(* Bounds of the exploration.                                              *)
(***************************************************************************)
MaxRetriesBound == 4
MaxTools == 1
MaxMethods == 4
MaxDepth == 2
MaxAttempt == 8

Undefined == "undefined"
NoData == [k \in {} |-> Undefined]

Min(a, b) == IF a <= b THEN a ELSE b

RECURSIVE Pow2(_)
Pow2(n) == IF n <= 0 THEN 1 ELSE 2 * Pow2(n - 1)

(***************************************************************************)
(* models.ts                                                               *)
(***************************************************************************)
NoError == [type |-> Undefined, codeType |-> Undefined, code |-> 0,
            messageType |-> Undefined, message |-> Undefined, data |-> NoData]

NoResult == [shape |-> Undefined, list |-> <<>>]

createMCPRequest(method, id) ==
    [method |-> method, params |-> "{}", id |-> id, jsonrpc |-> "2.0"]

createMCPResponse(result, id) ==
    [type |-> "object", keys |-> {"result", "id", "jsonrpc"},
     jsonrpc |-> "2.0", id |-> id, result |-> result, error |-> NoError]

createMCPErrorResponse(code, message, id, data) ==
    [type |-> "object", keys |-> {"error", "id", "jsonrpc"},
     jsonrpc |-> "2.0", id |-> id, result |-> NoResult,
     error |-> [type |-> "object", codeType |-> "number", code |-> code,
                messageType |-> "string", message |-> message, data |-> data]]

NoEnvelope ==
    [type |-> Undefined, keys |-> {}, jsonrpc |-> Undefined, id |-> Undefined,
     result |-> NoResult, error |-> NoError]

Has(data, key) == data.type = "object" /\ key \in data.keys

(***************************************************************************)
(* RequestForwarder                                                        *)
(***************************************************************************)
defaultOptions == [timeout |-> 30000, maxRetries |-> 3, retryDelay |-> 1000]

\* { ...this.defaultOptions, ...options }
MergeOptions(defaults, options) ==
    [k \in DOMAIN defaults |-> IF k \in DOMAIN options THEN options[k] ELSE defaults[k]]

\* variants of the validation with one check left out
isValidMCPResponseNoXor(data) ==
    /\ data.type = "object"
    /\ data.jsonrpc = "2.0"
    /\ (Has(data, "result") \/ Has(data, "error"))
    /\ Has(data, "error") =>
          /\ data.error.type = "object"
          /\ data.error.codeType = "number"
          /\ data.error.messageType = "string"

isValidMCPResponseNoVersion(data) ==
    /\ data.type = "object"
    /\ ~(Has(data, "result") /\ Has(data, "error"))
    /\ (Has(data, "result") \/ Has(data, "error"))
    /\ Has(data, "error") =>
          /\ data.error.type = "object"
          /\ data.error.codeType = "number"
          /\ data.error.messageType = "string"

\* lines 230-264
isValidMCPResponse(data) ==
    /\ data.type = "object"
    /\ data.jsonrpc = "2.0"
    /\ ~(Has(data, "result") /\ Has(data, "error"))
    /\ (Has(data, "result") \/ Has(data, "error"))
    /\ Has(data, "error") =>
          /\ data.error.type = "object"
          /\ data.error.codeType = "number"
          /\ data.error.messageType = "string"

isAxiosError(outcome) == outcome.isAxiosError

\* axiosError.response?.status && status >= 400 && status < 500
IsClientError(outcome) ==
    /\ outcome.kind = "status"
    /\ outcome.status >= 400
    /\ outcome.status < 500

\* the condition of the retry loop: attempt <= opts.maxRetries
LoopContinuesOffByTwo(attempt, maxRetries) == attempt <= maxRetries + 2

LoopContinues(attempt, maxRetries) == attempt <= maxRetries

\* opts.retryDelay * Math.pow(2, attempt - 1)
BackoffDelay(retryDelay, attempt) == retryDelay * Pow2(attempt - 1)

\* the body posted by attempt number `attempt`: the request object itself
SentEnvelopeFreshId(request, attempt) ==
    IF attempt = 1 THEN request ELSE [request EXCEPT !.id = "retry"]

SentEnvelope(request, attempt) == request

\* the message of the error caught by the attempt
ErrorMessage(outcome, serverUrl) ==
    CASE outcome.kind = "network" -> "Network Error"
      [] outcome.kind = "timeout" -> "timeout exceeded"
      [] outcome.kind = "status"  -> "Request failed with status code"
      [] OTHER -> "Invalid MCP response format from " \o serverUrl

\* the class of an attempt's outcome, kept in the call's history
OutcomeClass(outcome) ==
    CASE outcome.kind = "network" -> "network"
      [] outcome.kind = "timeout" -> "timeout"
      [] outcome.kind = "status" /\ outcome.status >= 500 -> "5xx"
      [] outcome.kind = "status" /\ outcome.status >= 400 -> "4xx"
      [] outcome.kind = "status" -> "3xx"
      [] outcome.kind = "reply" /\ isValidMCPResponse(outcome.data) -> "valid"
      [] OTHER -> "malformed"

IdleCall ==
    [pc |-> "idle", serverUrl |-> Undefined, request |-> createMCPRequest(Undefined, Undefined),
     opts |-> defaultOptions, attempt |-> 0, posts |-> 0, sent |-> <<>>, urls |-> <<>>,
     waits |-> <<>>, history |-> <<>>, lastError |-> "null",
     relayed |-> FALSE, ret |-> NoEnvelope,
     constructed |-> NoData, httpTimeout |-> defaultOptions.timeout, options |-> NoData]

\* lines 174-194: the envelope synthesized when the loop ends without a reply
ExhaustedResponse(f) ==
    createMCPErrorResponse(
        -32603,
        "Failed to forward request to " \o f.serverUrl \o ": "
            \o (IF f.lastError = "null" THEN "Unknown error" ELSE f.lastError),
        f.request.id,
        [serverUrl |-> f.serverUrl, attempts |-> f.opts.maxRetries])

FinishCall(f) ==
    [f EXCEPT !.pc = "done", !.relayed = FALSE, !.ret = ExhaustedResponse(f)]

\* the loop head: evaluate the loop condition for f.attempt
LoopHead(f) ==
    IF LoopContinues(f.attempt, f.opts.maxRetries)
    THEN [f EXCEPT !.pc = "post"]
    ELSE FinishCall(f)

\* lines 97-109: entry of forwardRequest up to the first loop test
StartCall(serverUrl, request, options) ==
    LoopHead([IdleCall EXCEPT !.serverUrl = serverUrl, !.request = request,
                              !.opts = MergeOptions(defaultOptions, options),
                              !.options = options,
                              !.attempt = 1])

\* lines 110-171: one attempt, from the POST to the next suspension point
AttemptCall(f, outcome) ==
    LET posted == [f EXCEPT !.posts = @ + 1,
                            !.sent = Append(@, SentEnvelope(f.request, f.attempt)),
                            !.urls = Append(@, f.serverUrl),
                            !.history = Append(@, OutcomeClass(outcome))]
        failed == [posted EXCEPT !.lastError = ErrorMessage(outcome, f.serverUrl)]
    IN  IF outcome.kind = "reply" /\ isValidMCPResponse(outcome.data)
        THEN [posted EXCEPT !.pc = "done", !.relayed = TRUE, !.ret = outcome.data]
        ELSE IF isAxiosError(outcome) /\ IsClientError(outcome)
        THEN FinishCall(failed)
        ELSE IF f.attempt < f.opts.maxRetries
        THEN [failed EXCEPT !.pc = "sleep",
                            !.waits = Append(@, BackoffDelay(f.opts.retryDelay, f.attempt))]
        ELSE LoopHead([failed EXCEPT !.attempt = @ + 1])

\* line 169 resumes: the sleep ends, attempt++ and the loop test; variant in
\* which the sleep never ends
WakeCallStaysAsleep(f) == f

WakeCall(f) == LoopHead([f EXCEPT !.attempt = @ + 1])

(***************************************************************************)
(* ResponseAggregator                                                      *)
(*                                                                         *)
(* A Map is a sequence of <<key, value>> pairs in insertion order; a       *)
(* capability description carries its text and `from`, the group that      *)
(* /from (\w+) server/ captures in the text ("undefined" when it does not  *)
(* match).                                                                 *)
(***************************************************************************)
aggregatorDefaultOptions ==
    [timeout |-> 30000, includeServerInfo |-> TRUE,
     conflictResolution |-> "prefix", continueOnPartialFailure |-> TRUE]

methodNames == <<"tools/list", "get_methods", "list_tools">>

\* names made only of \w characters, and names containing '/'
WordNames == {"A", "B", "C", "unknown"}
SlashNames == {"ns/t3"}

NoDescription == [text |-> Undefined, from |-> Undefined]

\* `${tool.name || 'Tool'} from ${serverName} server`
GeneratedDescription(toolName, serverName) ==
    [text |-> (IF toolName = Undefined THEN "Tool" ELSE toolName)
                 \o " from " \o serverName \o " server",
     from |-> IF serverName \in WordNames THEN serverName ELSE Undefined]

\* JavaScript truthiness of response.result / response.error
ResultTruthy(response) ==
    Has(response, "result") /\ response.result.shape \notin {"null", Undefined}

ErrorTruthy(response) ==
    Has(response, "error") /\ response.error.type \notin {"null", Undefined}

\* lines 198-224
extractMethodsFromResponse(response, serverName) ==
    IF ~ResultTruthy(response) THEN <<>>
    ELSE LET tools == IF response.result.shape \in {"tools", "methods", "array"}
                      THEN response.result.list ELSE <<>>
         IN  [i \in 1..Len(tools) |->
                [name |-> IF tools[i].name = Undefined THEN "unknown" ELSE tools[i].name,
                 description |-> IF tools[i].description = Undefined
                                 THEN GeneratedDescription(tools[i].name, serverName)
                                 ELSE tools[i].description]]

MapHas(map, key) == \E i \in 1..Len(map) : map[i][1] = key

\* Map.prototype.set; variants that always add an entry and that leave an
\* existing key alone
MapSetAppend(map, key, value) == Append(map, <<key, value>>)

MapSetIfAbsent(map, key, value) ==
    IF MapHas(map, key) THEN map ELSE Append(map, <<key, value>>)

MapSet(map, key, value) ==
    IF MapHas(map, key)
    THEN [i \in 1..Len(map) |-> IF map[i][1] = key THEN <<key, value>> ELSE map[i]]
    ELSE Append(map, <<key, value>>)

MapValues(map) == [i \in 1..Len(map) |-> map[i][2]]

\* lines 284-288: the first counter >= 1 with `${originalName}_${counter}` unused;
\* variant without the probe of the map
SuffixCounterNoProbe(map, originalName, counter) == counter

RECURSIVE SuffixCounter(_, _, _)
SuffixCounter(map, originalName, counter) ==
    IF MapHas(map, originalName \o "_" \o ToString(counter))
    THEN SuffixCounter(map, originalName, counter + 1)
    ELSE counter

\* lines 301-306
RECURSIVE UniqueName(_, _, _, _, _)
UniqueName(map, uniqueName, originalName, finalName, counter) ==
    IF MapHas(map, uniqueName) /\ uniqueName # originalName
    THEN UniqueName(map, finalName \o "_" \o ToString(counter), originalName,
                    finalName, counter + 1)
    ELSE uniqueName

\* lines 262-311: the body of the loop for one method
ResolveOne(map, method, strategy) ==
    LET originalName == method.name
        conflict == MapHas(map, originalName)
        finalName ==
            IF ~conflict THEN originalName
            ELSE CASE strategy = "prefix" ->
                        IF originalName \in SlashNames THEN originalName
                        ELSE (IF method.description.from # Undefined
                              THEN method.description.from ELSE "unknown")
                             \o "/" \o originalName
                   [] strategy = "suffix" ->
                        originalName \o "_" \o ToString(SuffixCounter(map, originalName, 1))
                   [] OTHER -> originalName
        uniqueName == UniqueName(map, finalName, originalName, finalName, 1)
    IN  IF conflict /\ strategy = "keep-first" THEN map
        ELSE MapSet(map, uniqueName, [method EXCEPT !.name = uniqueName])

RECURSIVE ResolveFrom(_, _, _, _)
ResolveFrom(methods, i, map, strategy) ==
    IF i > Len(methods) THEN map
    ELSE ResolveFrom(methods, i + 1, ResolveOne(map, methods[i], strategy), strategy)

\* lines 252-321
resolveMethodConflicts(methods, strategy) ==
    MapValues(ResolveFrom(methods, 1, <<>>, strategy))

\* `get-methods-${serverName}-${Date.now()}` (the clock is not modelled)
DiscoveryRequest(serverName, alias) ==
    createMCPRequest(methodNames[alias], "get-methods-" \o serverName)

FailureResult(serverName, message) ==
    [serverName |-> serverName, success |-> FALSE, methods |-> <<>>, error |-> message]

\* the name given to a per-backend outcome (lines 170-191)
ResultNameFirstBackend(serverName, serverUrls) ==
    IF serverUrls = <<>> THEN serverName ELSE serverUrls[1].name

ResultName(serverName, serverUrls) == serverName

\* lines 158-191: the end of getMethodsFromServer once the alias loop is left
ConcludeServer(s, response, serverUrls) ==
    LET resultName == ResultName(s.serverName, serverUrls)
        value ==
          IF response.type # "object" \/ ErrorTruthy(response)
          THEN FailureResult(resultName,
                   IF s.lastError # "null" THEN s.lastError
                   ELSE "No valid response from " \o s.serverName)
          ELSE [serverName |-> resultName, success |-> TRUE,
                methods |-> extractMethodsFromResponse(response, s.serverName),
                error |-> Undefined]
    IN  [s EXCEPT !.pc = "settled", !.call = IdleCall, !.response = response,
                  !.status = "fulfilled", !.value = value]

\* what an alias came back with: a reply that carries a result and no error,
\* or an error
ReplyKind(response) ==
    IF Has(response, "result") /\ ~Has(response, "error") THEN "result" ELSE "error"

\* lines 138-147: the alias loop issues forwardRequest for alias s.alias
RECURSIVE ContinueServer(_, _)
\* lines 147-156: forwardRequest returned `response` for alias s.alias
AfterForward(s0, response, serverUrls) ==
    LET s == [s0 EXCEPT !.returned = Append(@, ReplyKind(response))]
    IN  IF ResultTruthy(response) THEN ConcludeServer(s, response, serverUrls)
        ELSE IF s.alias < Len(methodNames)
        THEN ContinueServer([s EXCEPT !.alias = @ + 1, !.response = response], serverUrls)
        ELSE ConcludeServer(s, response, serverUrls)

ContinueServer(s, serverUrls) ==
    LET call == StartCall(s.serverUrl, DiscoveryRequest(s.serverName, s.alias),
                          [timeout |-> s.timeout])
        t == [s EXCEPT !.calls = @ + 1, !.tried = Append(@, call.request.method)]
    IN  IF call.pc = "done"
        THEN AfterForward(t, call.ret, serverUrls)
        ELSE [t EXCEPT !.call = call]

\* lines 123-137: getMethodsFromServer up to its first suspension point
StartServer(serverName, serverUrl, timeout, serverUrls) ==
    ContinueServer([pc |-> "running", serverName |-> serverName, serverUrl |-> serverUrl,
                    timeout |-> timeout, alias |-> 1, calls |-> 0, call |-> IdleCall,
                    tried |-> <<>>, returned |-> <<>>,
                    response |-> NoEnvelope, lastError |-> "null",
                    status |-> Undefined, value |-> FailureResult(Undefined, Undefined)],
                   serverUrls)

\* a step of the forwardRequest call a backend query is waiting on
AdvanceServer(s, call, serverUrls) ==
    IF call.pc = "done" THEN AfterForward(s, call.ret, serverUrls)
    ELSE [s EXCEPT !.call = call]

\* lines 61-78: the loop over the settled promises; variants of its body
RECURSIVE ProcessResultsDropFailed(_, _, _, _)
ProcessResultsDropFailed(srv, serverUrls, i, acc) ==
    IF i > Len(srv) THEN acc
    ELSE ProcessResultsDropFailed(srv, serverUrls, i + 1,
            IF srv[i].value.success
            THEN [serverResults |-> Append(acc.serverResults, srv[i].value),
                  allMethods |-> acc.allMethods \o srv[i].value.methods]
            ELSE acc)

\* variant that walks the backends in the order their queries settled
RECURSIVE ProcessResultsAsArrived(_, _, _, _)
ProcessResultsAsArrived(srv, serverUrls, i, acc) ==
    IF i > Len(srv) THEN acc
    ELSE LET k == agg.arrived[i]
         IN  ProcessResultsAsArrived(srv, serverUrls, i + 1,
                [serverResults |-> Append(acc.serverResults, srv[k].value),
                 allMethods |-> IF srv[k].value.success
                                THEN acc.allMethods \o srv[k].value.methods
                                ELSE acc.allMethods])

RECURSIVE ProcessResults(_, _, _, _)
ProcessResults(srv, serverUrls, i, acc) ==
    IF i > Len(srv) THEN acc
    ELSE ProcessResults(srv, serverUrls, i + 1,
            IF srv[i].status = "fulfilled"
            THEN [serverResults |-> Append(acc.serverResults, srv[i].value),
                  allMethods |-> IF srv[i].value.success
                                 THEN acc.allMethods \o srv[i].value.methods
                                 ELSE acc.allMethods]
            ELSE [serverResults |-> Append(acc.serverResults,
                                       FailureResult(serverUrls[i].name, "Unknown error")),
                  allMethods |-> acc.allMethods])

\* `arrived` lists the backends in the order their queries settled
IdleRound ==
    [pc |-> "idle", serverUrls |-> <<>>, opts |-> aggregatorDefaultOptions,
     srv |-> <<>>, arrived |-> <<>>, serverResults |-> <<>>, allMethods |-> <<>>,
     ret |-> NoEnvelope]

\* lines 41-58: aggregateMethods up to `await Promise.allSettled`
StartRound(serverUrls, options) ==
    LET opts == MergeOptions(aggregatorDefaultOptions, options)
    IN  [IdleRound EXCEPT
            !.pc = "waiting", !.serverUrls = serverUrls, !.opts = opts,
            !.srv = [i \in 1..Len(serverUrls) |->
                        StartServer(serverUrls[i].name, serverUrls[i].url,
                                    opts.timeout, serverUrls)]]

\* line 82: the test that turns the round into an error envelope; variants
ShouldEscalateOnOutage(successfulResults, serverResults, opts) ==
    Len(successfulResults) = 0

ShouldEscalateOnAnyFailure(successfulResults, serverResults, opts) ==
    Len(successfulResults) < Len(serverResults)

ShouldEscalate(successfulResults, serverResults, opts) ==
    Len(successfulResults) = 0 /\ ~opts.continueOnPartialFailure

\* lines 60-117: aggregateMethods after every backend query has settled
FinishRound(a) ==
    LET processed == ProcessResults(a.srv, a.serverUrls, 1,
                                    [serverResults |-> <<>>, allMethods |-> <<>>])
        serverResults == processed.serverResults
        successful == {i \in 1..Len(serverResults) : serverResults[i].success}
        successfulResults == SelectSeq(serverResults, LAMBDA r : r.success)
        resolvedMethods == resolveMethodConflicts(processed.allMethods,
                                                  a.opts.conflictResolution)
        stats == [totalServers |-> Len(a.serverUrls),
                  successfulServers |-> Cardinality(successful),
                  totalMethods |-> Len(resolvedMethods)]
        result == IF a.opts.includeServerInfo
                  THEN [shape |-> "aggregate", list |-> resolvedMethods,
                        serverResults |-> serverResults, aggregationStats |-> stats]
                  ELSE [shape |-> "aggregate", list |-> resolvedMethods]
    IN  [a EXCEPT
            !.pc = "done",
            !.serverResults = serverResults,
            !.allMethods = processed.allMethods,
            !.ret = IF ShouldEscalate(successfulResults, serverResults, a.opts)
                    THEN createMCPErrorResponse(-32603,
                             "All downstream servers failed to respond", Undefined,
                             [serverResults |-> serverResults])
                    ELSE createMCPResponse(result, Undefined)]

AllSettled(a) == \A i \in 1..Len(a.srv) : a.srv[i].pc = "settled"

(***************************************************************************)
(* Router                                                                  *)
(*                                                                         *)
(* A request path is absent or a sequence of tokens (Path), each token "/"  *)
(* or a string without '/'; a routing key is a sequence of tokens without  *)
(* "/"; the headers are absent or a sequence                               *)
(* of name/value entries (Headers); `rules` is a function from keys to     *)
(* backend names; `servers` is the sequence of the descriptors in          *)
(* Object.entries order.                                                   *)
(***************************************************************************)
NoPath == [type |-> Undefined, chars |-> <<>>]
Path(chars) == [type |-> "string", chars |-> chars]
NoHeaders == [type |-> Undefined, entries |-> <<>>]
Headers(entries) == [type |-> "object", entries |-> entries]

HasServer(servers, serverName) == \E i \in 1..Len(servers) : servers[i].name = serverName

ServerUrlOf(servers, serverName) ==
    (CHOOSE i \in 1..Len(servers) : servers[i].name = serverName)

\* requestPath.replace(/^\/+/, ""); variant that removes one slash only
StripOneSlash(path) ==
    IF path # <<>> /\ Head(path) = "/" THEN Tail(path) ELSE path

RECURSIVE StripLeadingSlashes(_)
StripLeadingSlashes(path) ==
    IF path # <<>> /\ Head(path) = "/" THEN StripLeadingSlashes(Tail(path)) ELSE path

\* .split("/")[0]
RECURSIVE FirstSegment(_)
FirstSegment(path) ==
    IF path = <<>> \/ Head(path) = "/" THEN <<>>
    ELSE <<Head(path)>> \o FirstSegment(Tail(path))

\* names that every plain object inherits from Object.prototype, and what a
\* lookup of such a name yields: a function or an object, truthy, whose
\* string form is the name of no backend
ObjectPrototypeKeys == {<<"constructor">>, <<"toString">>, <<"__proto__">>}
InheritedMember == "[inherited]"

\* this.config.rules[key], a property lookup on a plain object
RuleLookup(rules, key) ==
    IF key \in DOMAIN rules THEN rules[key]
    ELSE IF key \in ObjectPrototypeKeys THEN InheritedMember
    ELSE Undefined

\* lines 134-160
routeByPrefix(config, requestPath) ==
    IF requestPath.type = Undefined \/ requestPath.chars = <<>> THEN Undefined
    ELSE LET prefix == FirstSegment(StripLeadingSlashes(requestPath.chars))
         IN  IF prefix = <<>> THEN Undefined ELSE RuleLookup(config.rules, prefix)

\* key.toLowerCase() of the header names in use; variant that compares the
\* names as they are
ToLowerCaseIdentity(name) == name

ToLowerCase(name) ==
    IF name \in {"X-Target-MCP", "x-target-mcp", "X-target-MCP"} THEN "x-target-mcp"
    ELSE IF name \in {"Content-Type", "content-type"} THEN "content-type"
    ELSE IF name = "API_KEY" THEN "api_key"
    ELSE IF name = "Authorization" THEN "authorization"
    ELSE name

\* lines 165-200
routeByHeader(config, hdrs) ==
    IF hdrs.type = Undefined THEN Undefined
    ELSE LET headers == hdrs.entries
             matching == {i \in 1..Len(headers) : ToLowerCase(headers[i].name) = "x-target-mcp"}
         IN  IF matching = {} THEN Undefined
             ELSE LET targetHeader == CHOOSE i \in matching : \A j \in matching : i <= j
                      targetValue == headers[targetHeader].value
                  IN  IF targetValue = <<>> THEN Undefined
                      ELSE RuleLookup(config.rules, targetValue)

\* lines 101-127: the result of a failed routing; variant with one message
RoutingFailureGeneric(message) ==
    [serverName |-> "", serverUrl |-> "", success |-> FALSE, error |-> "No route found"]

RoutingFailure(message) ==
    [serverName |-> "", serverUrl |-> "", success |-> FALSE, error |-> message]

\* lines 49-128 (getServerUrl: lines 208-219)
routeRequest(r, request, requestPath, headers) ==
    IF r.config.strategy \notin {"prefix", "header"}
    THEN RoutingFailure("Invalid routing strategy")
    ELSE LET routed == IF r.config.strategy = "prefix"
                       THEN routeByPrefix(r.config, requestPath)
                       ELSE routeByHeader(r.config, headers)
             serverName == IF routed = Undefined /\ r.config.defaultServer # Undefined
                           THEN r.config.defaultServer ELSE routed
         IN  IF serverName = Undefined THEN RoutingFailure("No route found")
             ELSE IF ~HasServer(r.servers, serverName)
             THEN RoutingFailure("Server not found")
             ELSE [serverName |-> serverName,
                   serverUrl |-> r.servers[ServerUrlOf(r.servers, serverName)].url,
                   success |-> TRUE, error |-> Undefined]

\* constructor, lines 36-40
NewRouter(routing, servers) == [config |-> routing, servers |-> servers]

\* lines 259-266: both fields are assigned in one synchronous call; variant
\* that replaces the routing rules only
reloadConfigRulesOnly(r, config, servers) == [r EXCEPT !.config = config]

reloadConfig(r, config, servers) == [r EXCEPT !.config = config, !.servers = servers]

(***************************************************************************)
(* ConfigurationManager                                                    *)
(***************************************************************************)
\* config.ts lines 243-269: the checks of the servers and of the routing
\* section; TRUE when none of them throws
validateConfig(config) ==
    /\ Len(config.servers) # 0
    /\ config.routing.strategy \in {"prefix", "header"}
    /\ \A ruleKey \in DOMAIN config.routing.rules :
          HasServer(config.servers, config.routing.rules[ruleKey])
    /\ config.routing.defaultServer \notin {Undefined, ""}
          => HasServer(config.servers, config.routing.defaultServer)

(***************************************************************************)
(* ErrorHandler                                                            *)
(*                                                                         *)
(* A JSON value is a record with a `type`: a string (value), null,         *)
(* undefined, an object (fields: the <<key, value>> pairs in key order) or *)
(* an array (items).                                                       *)
(***************************************************************************)
Str(value) == [type |-> "string", value |-> value]
Null == [type |-> "null"]
NoValue == [type |-> Undefined]
Obj(fields) == [type |-> "object", fields |-> fields]
Arr(items) == [type |-> "array", items |-> items]

\* lines 434-437
sensitiveKeys ==
    {"password", "token", "key", "secret", "auth", "credential",
     "api_key", "access_token", "refresh_token", "authorization"}

\* the members of sensitiveKeys that the lower-case key includes
SensitiveParts(lowerKey) ==
    CASE lowerKey = "password" -> {"password"}
      [] lowerKey = "api_key" -> {"key", "api_key"}
      [] lowerKey = "monkey" -> {"key"}
      [] lowerKey = "authorization" -> {"auth", "authorization"}
      [] lowerKey = "token" -> {"token"}
      [] OTHER -> {}

\* lines 446-448
IsSensitiveKey(key) ==
    \E sensitive \in sensitiveKeys : sensitive \in SensitiveParts(ToLowerCase(key))

\* { ...data }: the own enumerable properties; an array spreads to its indices
Spread(data) ==
    IF data.type = "array"
    THEN [i \in 1..Len(data.items) |-> <<ToString(i - 1), data.items[i]>>]
    ELSE data.fields

\* lines 433-456
RECURSIVE sanitizeErrorData(_)
sanitizeErrorData(data) ==
    IF data.type \notin {"object", "array"} THEN data
    ELSE LET sanitized == Spread(data)
         IN  Obj([i \in 1..Len(sanitized) |->
                    IF IsSensitiveKey(sanitized[i][1])
                    THEN <<sanitized[i][1], Str("[REDACTED]")>>
                    ELSE IF sanitized[i][2].type \in {"object", "array", "null"}
                    THEN <<sanitized[i][1], sanitizeErrorData(sanitized[i][2])>>
                    ELSE sanitized[i]])

\* a DownstreamError built without a status code (statusCode undefined)
NoStatus == -1

\* customCode left out or 0: both are falsy in `customCode || -32603`
NoCode == 0

\* lines 320-331; error.message.includes(...) on the messages in use
getErrorCodeForRoutingError(error) ==
    IF error.message = "Invalid routing strategy" THEN -32602
    ELSE IF error.message = "Server not found" THEN -32601
    ELSE IF error.message = "No route found" THEN -32601
    ELSE -32603

\* lines 336-346; variant without the upper limit of the client range
getErrorCodeForDownstreamErrorNoUpperLimit(error) ==
    IF error.statusCode \notin {NoStatus, 0} /\ error.statusCode >= 400
    THEN -32602 ELSE -32603

getErrorCodeForDownstreamError(error) ==
    IF error.statusCode \notin {NoStatus, 0}
    THEN IF error.statusCode >= 400 /\ error.statusCode < 500 THEN -32602
         ELSE -32603
    ELSE -32603

\* lines 351-362
formatRoutingErrorMessage(error) ==
    IF error.message = "No route found"
    THEN "No routing rule found for the request. Please check the request path or headers."
    ELSE IF error.message = "Server not found"
    THEN "The target server is not configured. Please check the server configuration."
    ELSE IF error.message = "Invalid routing strategy"
    THEN "Invalid routing configuration. Please check the proxy configuration."
    ELSE "Routing error: " \o error.message

\* lines 367-381
formatDownstreamErrorMessage(error) ==
    IF error.statusCode \notin {NoStatus, 0}
    THEN IF error.statusCode = 404
         THEN "The requested resource was not found on server '" \o error.serverName \o "'."
         ELSE IF error.statusCode \in {401, 403}
         THEN "Authentication or authorization failed for server '"
                 \o error.serverName \o "'."
         ELSE IF error.statusCode >= 500
         THEN "Server '" \o error.serverName \o "' is experiencing internal issues."
         ELSE "Server '" \o error.serverName \o "' returned error "
                 \o ToString(error.statusCode) \o ": " \o error.message
    ELSE "Failed to communicate with server '" \o error.serverName \o "': "
            \o error.message

\* context?.requestId and context?.method
NoContext == [type |-> Undefined, requestId |-> Undefined, method |-> Undefined]
Context(requestId, method) == [type |-> "object", requestId |-> requestId, method |-> method]

\* lines 38-74
handleRoutingError(error, context) ==
    createMCPErrorResponse(
        getErrorCodeForRoutingError(error), formatRoutingErrorMessage(error),
        context.requestId,
        [type |-> "routing_error", details |-> error.details,
         requestPath |-> error.requestPath, availableHeaders |-> error.headers,
         method |-> context.method])

\* responseData is embedded when it is truthy
Truthy(data) == data.type \in {"object", "array"} \/ (data.type = "string" /\ data.value # "")

\* lines 80-119
handleDownstreamError(error, context) ==
    createMCPErrorResponse(
        getErrorCodeForDownstreamError(error), formatDownstreamErrorMessage(error),
        context.requestId,
        [type |-> "downstream_error", serverName |-> error.serverName,
         serverUrl |-> error.serverUrl,
         statusCode |-> IF error.statusCode \notin {NoStatus, 0}
                        THEN error.statusCode ELSE NoStatus,
         serverResponse |-> IF Truthy(error.responseData) THEN error.responseData
                            ELSE NoValue,
         method |-> context.method])

\* lines 386-397; error.message.includes(...) on the messages in use
formatProtocolErrorMessage(error) ==
    IF error.message = "timeout of 5000ms exceeded"
    THEN "Request timed out while processing."
    ELSE IF error.message = "network unreachable"
    THEN "Network connection error occurred."
    ELSE "Internal processing error: " \o error.message

\* lines 124-158; customCode || -32603
handleProtocolError(error, context, customCode) ==
    createMCPErrorResponse(
        IF customCode # NoCode THEN customCode ELSE -32603,
        formatProtocolErrorMessage(error),
        context.requestId,
        [type |-> "protocol_error", originalError |-> "Error", method |-> context.method])

\* lines 163-189
handleValidationError(validationErrors, context) ==
    createMCPErrorResponse(
        -32600, "Invalid request format: " \o validationErrors, context.requestId,
        [type |-> "validation_error", validationErrors |-> validationErrors,
         method |-> context.method])

\* lines 194-224
handleTimeoutError(timeoutMs, context) ==
    createMCPErrorResponse(
        -32603, "Request timed out after " \o ToString(timeoutMs) \o "ms",
        context.requestId,
        [type |-> "timeout_error", timeoutMs |-> timeoutMs, method |-> context.method])

\* lines 229-256
handleRateLimitError(limit, windowMs, context) ==
    createMCPErrorResponse(
        -32000,
        "Rate limit exceeded: " \o ToString(limit) \o " requests per "
            \o ToString(windowMs) \o "ms",
        context.requestId,
        [type |-> "rate_limit_error", limit |-> limit, windowMs |-> windowMs])

\* lines 402-421; DownstreamError objects are the ones with a serverName;
\* error.message.toLowerCase().includes(...) on the messages in use
isRetryableError(error) ==
    IF "serverName" \in DOMAIN error
    THEN error.statusCode \in {NoStatus, 0} \/ error.statusCode >= 500
    ELSE error.message \in {"Connection timeout", "Network error", "ECONNRESET",
                            "Network Error", "timeout exceeded",
                            "timeout of 5000ms exceeded", "network unreachable"}

\* lines 426-428; variant without the cap
getRetryDelayUncapped(attempt, baseDelay) == baseDelay * Pow2(attempt - 1)

getRetryDelay(attempt, baseDelay) == Min(baseDelay * Pow2(attempt - 1), 30000)

\* a number as a value
Num(value) == [type |-> "number", value |-> value]

\* RoutingError / DownstreamError / Error objects
RoutingErrorOf(message, requestPath) ==
    [message |-> message, details |-> "details", requestPath |-> requestPath,
     headers |-> Undefined]

DownstreamErrorOf(message, statusCode, responseData) ==
    [message |-> message, serverName |-> "A", serverUrl |-> "http://a",
     statusCode |-> statusCode, responseData |-> responseData]

IdleHandler ==
    [pc |-> "idle", op |-> Undefined, context |-> NoContext,
     error |-> RoutingErrorOf(Undefined, Undefined), data |-> NoValue,
     ret |-> NoEnvelope, out |-> NoValue]

(***************************************************************************)
(* MCPProxyServer (the gateway)                                            *)
(***************************************************************************)
\* constructor, lines 19-28: the router gets config.routing and config.servers
IdleGateway(config) ==
    [pc |-> "idle", config |-> config,
     request |-> createMCPRequest(Undefined, Undefined),
     requestPath |-> NoPath, headers |-> NoHeaders,
     routingResult |-> RoutingFailure(Undefined), response |-> NoEnvelope]

\* lines 297-300; variant that keeps the first backend only
ServerUrlsOfFirstOnly(servers) ==
    [i \in 1..Min(1, Len(servers)) |-> [name |-> servers[i].name, url |-> servers[i].url]]

ServerUrlsOf(servers) ==
    [i \in 1..Len(servers) |-> [name |-> servers[i].name, url |-> servers[i].url]]

\* lines 325-330
RoutingErrorResponse(g, routingResult, request, requestPath) ==
    createMCPErrorResponse(
        -32601,
        IF routingResult.error = Undefined THEN "No route found for request"
        ELSE routingResult.error,
        request.id,
        [requestPath |-> requestPath,
         availableServers |-> [i \in 1..Len(g.config.servers) |-> g.config.servers[i].name]])

\* lines 356-370: the catch of handleRequest; variant that lets the failure out
CatchFailureRethrows(g, thrown) == [g EXCEPT !.pc = "rejected"]

CatchFailure(g, thrown) ==
    [g EXCEPT !.pc = "done",
              !.response = createMCPErrorResponse(
                               -32603,
                               IF thrown.isError THEN thrown.message ELSE "Unknown error",
                               g.request.id, Undefined)]

(***************************************************************************)
(* What one HTTP POST can come back with (axios): a network failure (no    *)
(* response; thrown by a mock as a plain Error or by axios as AxiosError), *)
(* a timeout (AxiosError without response), a non-2xx status (AxiosError   *)
(* with response.status) or a 2xx reply carrying a JSON body.              *)
(***************************************************************************)
RetryDelays == {100, 1000, 20000}

Tools == {[name |-> "t1", description |-> Undefined],
          [name |-> "t2", description |-> Undefined]}

ForwardResults == {[shape |-> "tools", list |-> l] : l \in {<<>>} \cup [1..1 -> Tools]}

\* the JSON bodies a backend may answer a request with id `id`
Replies(id, results) ==
    LET WellFormedError ==
            [type |-> "object", codeType |-> "number", code |-> -32601,
             messageType |-> "string", message |-> "Method not found", data |-> NoData]
    IN
    LET ok == createMCPResponse(CHOOSE r \in results : TRUE, id)
        er == createMCPErrorResponse(-32601, "Method not found", id, NoData)
    IN  {createMCPResponse(r, i) : r \in results, i \in {id, "other"}}
        \cup {er, [er EXCEPT !.id = "other"]}
        \cup {[ok EXCEPT !.keys = @ \cup {"error"}, !.error = WellFormedError],
              [ok EXCEPT !.keys = {"id", "jsonrpc"}, !.result = NoResult],
              [ok EXCEPT !.jsonrpc = "1.0"],
              [er EXCEPT !.jsonrpc = "1.0"],
              [ok EXCEPT !.keys = {"invalid"}, !.jsonrpc = Undefined, !.result = NoResult],
              [NoEnvelope EXCEPT !.type = "null"],
              [NoEnvelope EXCEPT !.type = "string"],
              [er EXCEPT !.error = [NoError EXCEPT !.type = "string"]],
              [er EXCEPT !.error = [NoError EXCEPT !.type = "null"]],
              [er EXCEPT !.error.messageType = Undefined, !.error.message = Undefined],
              [er EXCEPT !.error.codeType = "string"]}

Outcome(kind, isAxios, status, data) ==
    [kind |-> kind, isAxiosError |-> isAxios, status |-> status, data |-> data]

AttemptOutcomes(id, results) ==
    LET Statuses == {304, 400, 404, 499, 500, 503}
    IN
    {Outcome("network", ax, 0, NoEnvelope) : ax \in BOOLEAN}
    \cup {Outcome("timeout", TRUE, 0, NoEnvelope)}
    \cup {Outcome("status", TRUE, s, NoEnvelope) : s \in Statuses}
    \cup {Outcome("reply", FALSE, 200, d) : d \in Replies(id, results)}

\* the options argument of one forwardRequest call
CallOptions ==
    {NoData, [timeout |-> 5000]}
    \cup {[maxRetries |-> n] : n \in 0..MaxRetriesBound}
    \cup {[retryDelay |-> d] : d \in RetryDelays}
    \cup {[maxRetries |-> n, retryDelay |-> d] : n \in 0..MaxRetriesBound, d \in RetryDelays}

(***************************************************************************)
(* Initial state: the objects as constructed, no call in progress.         *)
(***************************************************************************)
ServerA == [name |-> "A", url |-> "http://a"]
ServerB == [name |-> "B", url |-> "http://b"]

\* the configurations the proxy is constructed with
InitialConfigs ==
    {[servers |-> <<ServerA, ServerB>>,
      routing |-> [strategy |-> "prefix", rules |-> (<<"g">> :> "A" @@ <<"f">> :> "B"),
                   defaultServer |-> Undefined]],
     [servers |-> <<ServerA, ServerB>>,
      routing |-> [strategy |-> "header", rules |-> (<<"g">> :> "A" @@ <<"f">> :> "B"),
                   defaultServer |-> "B"]],
     [servers |-> <<ServerB>>,
      routing |-> [strategy |-> "prefix", rules |-> (<<"g">> :> "A" @@ <<"f">> :> "B"),
                   defaultServer |-> Undefined]]}

DefaultConfig ==
    [servers |-> <<ServerA, ServerB>>,
     routing |-> [strategy |-> "prefix", rules |-> (<<"g">> :> "A" @@ <<"f">> :> "B"),
                  defaultServer |-> "B"]]

\* no resolveMethodConflicts call has been made
IdleMerge == [pc |-> "idle", methods |-> <<>>, strategy |-> Undefined, resolved |-> <<>>]

\* no routeRequest call has been made; `generation` is the (rules, descriptor
\* set) pair last handed to the router, `used` the one in force at the call,
\* `reloadedAt` the number of POSTs a forwarded call had made when the last
\* reload happened during it (-1: no reload during a forwarded call)
IdleRoute(config) ==
    [pc |-> "idle", generation |-> NewRouter(config.routing, config.servers),
     used |-> NewRouter(config.routing, config.servers), reloadedAt |-> -1,
     request |-> createMCPRequest(Undefined, Undefined),
     requestPath |-> NoPath, headers |-> NoHeaders,
     result |-> RoutingFailure(Undefined)]

InitWith(configs) ==
    /\ fwd = IdleCall
    /\ agg = IdleRound
    /\ merge = IdleMerge
    /\ eh = IdleHandler
    /\ \E config \in configs :
          /\ gw = IdleGateway(config)
          /\ router = NewRouter(config.routing, config.servers)
          /\ route = IdleRoute(config)

Init == InitWith({DefaultConfig})

InitGateway == InitWith(InitialConfigs)

(***************************************************************************)
(* SpecForward: one forwardRequest call against one backend.               *)
(***************************************************************************)
ForwardRequest ==
    LET ServerUrls == {"http://a"}
    IN
    LET RequestIds == {Undefined, "1", "2"}
    IN
    /\ fwd.pc = "idle"
    /\ gw.pc = "idle"
    /\ \E url \in ServerUrls, id \in RequestIds, options \in CallOptions :
          fwd' = [StartCall(url, createMCPRequest("tools/call", id), options)
                    EXCEPT !.constructed = fwd.constructed,
                           !.httpTimeout = fwd.httpTimeout]
    /\ UNCHANGED <<agg, gw, router, merge, route, eh>>

Post ==
    /\ fwd.pc = "post"
    /\ \E o \in AttemptOutcomes(fwd.request.id, ForwardResults) :
          fwd' = AttemptCall(fwd, o)
    /\ UNCHANGED <<agg, gw, router, merge, route, eh>>

Sleep ==
    /\ fwd.pc = "sleep"
    /\ fwd' = WakeCall(fwd)
    /\ UNCHANGED <<agg, gw, router, merge, route, eh>>

NextForward == ForwardRequest \/ Post \/ Sleep

SpecForward == Init /\ [][NextForward]_vars

(***************************************************************************)
(* SpecConstruct: a RequestForwarder constructed with options, then one    *)
(* forwardRequest call.                                                    *)
(***************************************************************************)
\* lines 81-93: the options only reach the timeout of the axios instance
NewRequestForwarder ==
    /\ fwd.pc = "idle"
    /\ fwd.constructed = NoData
    /\ gw.pc = "idle"
    /\ \E options \in {[timeout |-> 5000, maxRetries |-> 2, retryDelay |-> 100],
                       [maxRetries |-> 1]} :
          fwd' = [IdleCall EXCEPT
                    !.constructed = options,
                    !.httpTimeout = MergeOptions(defaultOptions, options).timeout]
    /\ UNCHANGED <<agg, gw, router, merge, route, eh>>

NextConstruct == NewRequestForwarder \/ ForwardRequest \/ Post \/ Sleep

SpecConstruct == Init /\ [][NextConstruct]_vars

(***************************************************************************)
(* SpecAggregate: one aggregateMethods round; the backend queries advance  *)
(* in any interleaving.                                                    *)
(***************************************************************************)
DiscoveryResults ==
    LET DiscoveryTools ==
            {[name |-> "t1", description |-> Undefined],
             [name |-> Undefined, description |-> Undefined],
             [name |-> "ns/t3", description |-> Undefined]}
    IN
    LET DiscoveryLists == UNION {[1..n -> DiscoveryTools] : n \in 0..MaxTools}
    IN
    {[shape |-> "tools", list |-> l] : l \in DiscoveryLists}
    \cup {[shape |-> sh, list |-> <<t>>] : sh \in {"methods", "array"},
                                          t \in {[name |-> "t1", description |-> Undefined]}}
    \cup {[shape |-> "other", list |-> <<>>], [shape |-> "null", list |-> <<>>]}

DiscoveryOutcomes(id) ==
    {Outcome("network", TRUE, 0, NoEnvelope), Outcome("status", TRUE, 404, NoEnvelope),
     Outcome("reply", FALSE, 200, createMCPErrorResponse(-32601, "Method not found", id, NoData))}
    \cup {Outcome("reply", FALSE, 200, createMCPResponse(r, id)) : r \in DiscoveryResults}

AggregateMethods ==
    LET RoundOptions ==
            {NoData, [continueOnPartialFailure |-> FALSE],
             [conflictResolution |-> "suffix", includeServerInfo |-> FALSE, timeout |-> 1000]}
    IN
    LET RoundServerUrls == {<<>>, <<ServerA>>, <<ServerA, ServerB>>}
    IN
    /\ agg.pc = "idle"
    /\ gw.pc = "idle"
    /\ \E serverUrls \in RoundServerUrls, options \in RoundOptions :
          agg' = StartRound(serverUrls, options)
    /\ UNCHANGED <<fwd, gw, router, merge, route, eh>>

ServerPost ==
    /\ agg.pc = "waiting"
    /\ \E i \in 1..Len(agg.srv) :
          /\ agg.srv[i].pc = "running"
          /\ agg.srv[i].call.pc = "post"
          /\ \E o \in DiscoveryOutcomes(agg.srv[i].call.request.id) :
                LET s == AdvanceServer(agg.srv[i], AttemptCall(agg.srv[i].call, o),
                                       agg.serverUrls)
                IN  agg' = [agg EXCEPT !.srv[i] = s,
                                       !.arrived = IF s.pc = "settled"
                                                   THEN Append(@, i) ELSE @]
    /\ UNCHANGED <<fwd, gw, router, merge, route, eh>>

ServerSleep ==
    /\ agg.pc = "waiting"
    /\ \E i \in 1..Len(agg.srv) :
          /\ agg.srv[i].pc = "running"
          /\ agg.srv[i].call.pc = "sleep"
          /\ LET s == AdvanceServer(agg.srv[i], WakeCall(agg.srv[i].call),
                                    agg.serverUrls)
             IN  agg' = [agg EXCEPT !.srv[i] = s,
                                    !.arrived = IF s.pc = "settled"
                                                THEN Append(@, i) ELSE @]
    /\ UNCHANGED <<fwd, gw, router, merge, route, eh>>

\* Promise.allSettled resolves
RoundSettled ==
    /\ agg.pc = "waiting"
    /\ AllSettled(agg)
    /\ agg' = FinishRound(agg)
    /\ UNCHANGED <<fwd, gw, router, merge, route, eh>>

NextAggregate == AggregateMethods \/ ServerPost \/ ServerSleep \/ RoundSettled

SpecAggregate == Init /\ [][NextAggregate]_vars

(***************************************************************************)
(* SpecLive: one forwardRequest call or one round, where every started     *)
(* attempt comes back, every backoff wait ends and a settled Promise       *)
(* resumes its awaiter.                                                    *)
(***************************************************************************)
\* the rounds followed to their end are those with the default options:
\* every round over at most one backend and, over two backends, the rounds in
\* which no alias of any backend comes back with a result (the longest ones)
LiveRound(a) ==
    /\ a.opts = aggregatorDefaultOptions
    /\ \/ Len(a.serverUrls) <= 1
       \/ \A i \in 1..Len(a.srv) :
             \A k \in 1..Len(a.srv[i].returned) : a.srv[i].returned[k] = "error"

NextLive ==
    \/ agg.pc = "idle" /\ NextForward
    \/ fwd.pc = "idle" /\ NextAggregate /\ LiveRound(agg')

SpecLive ==
    /\ Init /\ [][NextLive]_vars
    /\ WF_vars(Post) /\ WF_vars(Sleep)
    /\ WF_vars(ServerPost) /\ WF_vars(ServerSleep) /\ WF_vars(RoundSettled)

(***************************************************************************)
(* SpecGateway: one handleRequest call of the proxy server.                *)
(***************************************************************************)
\* (path, headers) of an inbound request
GatewayContexts ==
    {<<NoPath, NoHeaders>>,
     <<Path(<<"/", "g", "/", "x">>), Headers(<<>>)>>,
     <<Path(<<"/", "/", "f">>), NoHeaders>>,
     <<Path(<<"/", "z">>), Headers(<<[name |-> "X-Target-MCP", value |-> <<"g">>]>>)>>,
     <<Path(<<"/">>), Headers(<<[name |-> "content-type", value |-> <<"j">>],
                                [name |-> "x-target-mcp", value |-> <<"z">>]>>)>>}

\* <<request, path, headers>> of the inbound calls
GatewayInputs ==
    {<<createMCPRequest("tools/call", id), ctx[1], ctx[2]>> :
        id \in {Undefined, "1"}, ctx \in GatewayContexts}
    \cup {<<createMCPRequest("get_methods", "1"), Path(<<"/", "g", "/", "x">>), Headers(<<>>)>>,
          <<createMCPRequest("get_methods", Undefined), NoPath,
            Headers(<<[name |-> "X-Target-MCP", value |-> <<"g">>]>>)>>}

\* lines 275-344: handleRequest up to its first suspension point
HandleRequest ==
    /\ gw.pc = "idle"
    /\ \E input \in GatewayInputs :
         LET request == input[1]
             ctx == <<input[2], input[3]>>
             g == [gw EXCEPT !.request = request, !.requestPath = ctx[1],
                             !.headers = ctx[2]]
             routingResult == routeRequest(router, request, ctx[1], ctx[2])
         IN  IF request.method = "get_methods"
             THEN /\ agg' = StartRound(ServerUrlsOf(gw.config.servers), NoData)
                  /\ gw' = [g EXCEPT !.pc = "aggregating"]
                  /\ fwd' = fwd
             ELSE IF ~routingResult.success
             THEN /\ gw' = [g EXCEPT !.pc = "done", !.routingResult = routingResult,
                                     !.response = RoutingErrorResponse(gw, routingResult,
                                                      request, ctx[1])]
                  /\ UNCHANGED <<fwd, agg>>
             ELSE /\ fwd' = StartCall(routingResult.serverUrl, request, NoData)
                  /\ gw' = [g EXCEPT !.pc = "forwarding", !.routingResult = routingResult]
                  /\ agg' = agg
    /\ UNCHANGED <<router, merge, route, eh>>

\* line 302 resumes: aggregateMethods returned
ReturnAggregated ==
    /\ gw.pc = "aggregating"
    /\ agg.pc = "done"
    /\ gw' = [gw EXCEPT !.pc = "done", !.response = agg.ret]
    /\ UNCHANGED <<fwd, agg, router, merge, route, eh>>

\* line 341 resumes: forwardRequest returned
ReturnForwarded ==
    /\ gw.pc = "forwarding"
    /\ fwd.pc = "done"
    /\ gw' = [gw EXCEPT !.pc = "done", !.response = fwd.ret]
    /\ UNCHANGED <<fwd, agg, router, merge, route, eh>>

NextGateway ==
    \/ HandleRequest
    \/ Post \/ Sleep \/ ReturnForwarded
    \/ ServerPost \/ ServerSleep \/ RoundSettled \/ ReturnAggregated

SpecGateway == InitGateway /\ [][NextGateway]_vars

(***************************************************************************)
(* SpecFaults: the gateway with collaborators that may also throw: the     *)
(* router inside routeRequest, the aggregator and the forwarder by         *)
(* rejecting the promise handleRequest awaits.                             *)
(***************************************************************************)
\* what a collaborator throws: an Error, or a value that is not an Error
Throwables ==
    {[isError |-> TRUE, message |-> "component failure"],
     [isError |-> FALSE, message |-> Undefined]}

\* line 314: routeRequest throws
RouterThrows ==
    /\ gw.pc = "idle"
    /\ \E input \in GatewayInputs, thrown \in Throwables :
          /\ input[1].method # "get_methods"
          /\ gw' = CatchFailure([gw EXCEPT !.request = input[1], !.requestPath = input[2],
                                           !.headers = input[3]], thrown)
    /\ UNCHANGED <<fwd, agg, router, merge, route, eh>>

\* line 302: the promise of aggregateMethods is rejected
AggregatorRejects ==
    /\ gw.pc = "aggregating"
    /\ \E thrown \in Throwables : gw' = CatchFailure(gw, thrown)
    /\ UNCHANGED <<fwd, agg, router, merge, route, eh>>

\* line 341: the promise of forwardRequest is rejected
ForwarderRejects ==
    /\ gw.pc = "forwarding"
    /\ \E thrown \in Throwables : gw' = CatchFailure(gw, thrown)
    /\ UNCHANGED <<fwd, agg, router, merge, route, eh>>

NextFaults == NextGateway \/ RouterThrows \/ AggregatorRejects \/ ForwarderRejects

SpecFaults == InitGateway /\ [][NextFaults]_vars

(***************************************************************************)
(* SpecErrors: the operations of ErrorHandler applied to bounded inputs.   *)
(***************************************************************************)
ErrorContexts == {NoContext, Context(Undefined, Undefined), Context("1", "tools/call"),
                  Context("2", Undefined)}

\* the JSON values nested at most `depth` levels deep
RECURSIVE JsonValues(_)
JsonValues(depth) ==
    LET JsonKeys == {"username", "password", "API_KEY", "monkey", "nested"}
        JsonLeaves == {Str("v"), Str("w"), Null}
    IN
    IF depth = 0 THEN JsonLeaves
    ELSE LET inner == JsonValues(depth - 1)
         IN  JsonLeaves
             \cup {Obj(<<<<k, v>>>>) : k \in JsonKeys, v \in inner}
             \cup {Obj(<<<<kk[1], v>>, <<kk[2], Str("v")>>>>) :
                      kk \in {p \in JsonKeys \X JsonKeys : p[1] # p[2]}, v \in inner}
             \cup {Arr(<<v>>) : v \in inner}

HandlerDone(op, context, error, data, ret, out) ==
    [pc |-> "done", op |-> op, context |-> context, error |-> error, data |-> data,
     ret |-> ret, out |-> out]

HandleRoutingError ==
    /\ eh.pc = "idle"
    /\ \E message \in {"Invalid routing strategy", "No route found",
                         "Server not found", "Test error"},
          context \in ErrorContexts,
          requestPath \in {Undefined, "/g/x"} :
          LET error == RoutingErrorOf(message, requestPath)
          IN  eh' = HandlerDone("handleRoutingError", context, error, NoValue,
                                handleRoutingError(error, context), NoValue)
    /\ UNCHANGED <<fwd, agg, gw, router, merge, route>>

HandleDownstreamError ==
    /\ eh.pc = "idle"
    /\ \E statusCode \in {NoStatus, 0, 302, 399, 400, 401, 404, 499, 500, 503},
          context \in ErrorContexts,
          responseData \in JsonValues(1) \cup {NoValue, Str("")} :
          LET error == DownstreamErrorOf("Request failed", statusCode, responseData)
          IN  eh' = HandlerDone("handleDownstreamError", context, error, NoValue,
                                handleDownstreamError(error, context), NoValue)
    /\ UNCHANGED <<fwd, agg, gw, router, merge, route>>

HandleProtocolError ==
    /\ eh.pc = "idle"
    /\ \E message \in {"timeout of 5000ms exceeded", "network unreachable", "boom"},
          context \in ErrorContexts, customCode \in {NoCode, -32700, -32000} :
          LET error == RoutingErrorOf(message, Undefined)
          IN  eh' = HandlerDone("handleProtocolError", context, error, NoValue,
                                handleProtocolError(error, context, customCode), NoValue)
    /\ UNCHANGED <<fwd, agg, gw, router, merge, route>>

HandleValidationError ==
    /\ eh.pc = "idle"
    /\ \E validationErrors \in {"", "missing method"}, context \in ErrorContexts :
          eh' = HandlerDone("handleValidationError", context,
                            RoutingErrorOf(validationErrors, Undefined), NoValue,
                            handleValidationError(validationErrors, context), NoValue)
    /\ UNCHANGED <<fwd, agg, gw, router, merge, route>>

HandleTimeoutError ==
    /\ eh.pc = "idle"
    /\ \E timeoutMs \in {0, 5000}, context \in ErrorContexts :
          eh' = HandlerDone("handleTimeoutError", context,
                            RoutingErrorOf(Undefined, Undefined), NoValue,
                            handleTimeoutError(timeoutMs, context), NoValue)
    /\ UNCHANGED <<fwd, agg, gw, router, merge, route>>

HandleRateLimitError ==
    /\ eh.pc = "idle"
    /\ \E limit \in {1, 100}, windowMs \in {1000, 60000}, context \in ErrorContexts :
          eh' = HandlerDone("handleRateLimitError", context,
                            RoutingErrorOf(Undefined, Undefined), NoValue,
                            handleRateLimitError(limit, windowMs, context), NoValue)
    /\ UNCHANGED <<fwd, agg, gw, router, merge, route>>

SanitizeErrorData ==
    /\ eh.pc = "idle"
    /\ \E data \in JsonValues(MaxDepth) \cup {NoValue} :
          eh' = HandlerDone("sanitizeErrorData", NoContext,
                            RoutingErrorOf(Undefined, Undefined), data,
                            NoEnvelope, sanitizeErrorData(data))
    /\ UNCHANGED <<fwd, agg, gw, router, merge, route>>

IsRetryableError ==
    /\ eh.pc = "idle"
    /\ \E error \in {DownstreamErrorOf("Server error", statusCode, NoValue) :
                        statusCode \in {NoStatus, 0, 302, 400, 499, 500, 503}}
                  \cup {RoutingErrorOf(message, Undefined) :
                          message \in {"Connection timeout", "Network error",
                                       "ECONNRESET", "Invalid JSON"}} :
          eh' = HandlerDone("isRetryableError", NoContext, error, NoValue, NoEnvelope,
                            [type |-> "boolean", value |-> isRetryableError(error)])
    /\ UNCHANGED <<fwd, agg, gw, router, merge, route>>

GetRetryDelay ==
    /\ eh.pc = "idle"
    /\ \E attempt \in 1..MaxAttempt, baseDelay \in {0, 1, 500, 1000, 30000, 40000} :
          eh' = HandlerDone("getRetryDelay", NoContext,
                            RoutingErrorOf(Undefined, Undefined),
                            Arr(<<Num(attempt), Num(baseDelay)>>), NoEnvelope,
                            Num(getRetryDelay(attempt, baseDelay)))
    /\ UNCHANGED <<fwd, agg, gw, router, merge, route>>

NextErrors ==
    \/ HandleRoutingError \/ HandleDownstreamError \/ HandleProtocolError
    \/ HandleValidationError \/ HandleTimeoutError \/ HandleRateLimitError
    \/ SanitizeErrorData \/ IsRetryableError \/ GetRetryDelay

SpecErrors == Init /\ [][NextErrors]_vars

(***************************************************************************)
(* SpecRouter: routeRequest calls and reloadConfig calls in any order.     *)
(***************************************************************************)
ServerA2 == [name |-> "A", url |-> "http://a2"]
ReloadRoutings ==
    {[strategy |-> "prefix", rules |-> (<<"g">> :> "C"), defaultServer |-> Undefined],
     [strategy |-> "header", rules |-> (<<"g">> :> "B"), defaultServer |-> "A"],
     [strategy |-> "round-robin", rules |-> (<<"g">> :> "A"), defaultServer |-> "A"]}

ReloadServers ==
    LET ServerC == [name |-> "C", url |-> "http://c"]
    IN
    {<<ServerA2, ServerB>>, <<ServerC>>}

\* the configurations a router is constructed with
RouterConfigs ==
    InitialConfigs \cup
    {DefaultConfig,
     [servers |-> <<ServerA, ServerB>>,
      routing |-> [strategy |-> "header", rules |-> (<<"g">> :> "A" @@ <<"f">> :> "B"),
                   defaultServer |-> Undefined]]}

InitRouter == InitWith(RouterConfigs)

RoutePaths ==
    {NoPath, Path(<<>>), Path(<<"/">>), Path(<<"/", "g", "/", "x">>), Path(<<"f">>),
     Path(<<"/", "/", "f", "/", "g">>), Path(<<"/", "z">>),
     Path(<<"/", "constructor", "/", "x">>)}

TargetHeaderNames == {"X-Target-MCP", "x-target-mcp", "X-target-MCP"}

RouteHeaders ==
    {NoHeaders, Headers(<<>>),
     Headers(<<[name |-> "content-type", value |-> <<"j">>],
               [name |-> "x-target-mcp", value |-> <<"z">>]>>),
     Headers(<<[name |-> "X-Target-MCP", value |-> <<>>]>>),
     Headers(<<[name |-> "x-target-mcp", value |-> <<"constructor">>]>>)}
    \cup {Headers(<<[name |-> n, value |-> <<"g">>]>>) : n \in TargetHeaderNames}

RouteContexts ==
    {<<path, NoHeaders>> : path \in RoutePaths}
    \cup {<<NoPath, headers>> : headers \in RouteHeaders}
    \cup {<<Path(<<"/", "z">>), Headers(<<[name |-> "X-Target-MCP", value |-> <<"g">>]>>)>>}

RouteRequest ==
    /\ \E ctx \in RouteContexts :
          LET request == createMCPRequest("tools/call", "1")
          IN  route' = [route EXCEPT
                          !.pc = "done", !.used = route.generation,
                          !.request = request, !.requestPath = ctx[1],
                          !.headers = ctx[2],
                          !.result = routeRequest(router, request, ctx[1], ctx[2])]
    /\ UNCHANGED <<fwd, agg, gw, router, merge, eh>>

\* a reload that also retargets the call in flight (variant)
ReloadConfigRetargets ==
    /\ \E config \in ReloadRoutings, servers \in ReloadServers :
          /\ router' = reloadConfig(router, config, servers)
          /\ route' = [route EXCEPT !.generation = NewRouter(config, servers),
                                    !.reloadedAt = IF gw.pc = "forwarding"
                                                   THEN fwd.posts ELSE @]
          /\ fwd' = IF fwd.pc \in {"post", "sleep"}
                    THEN [fwd EXCEPT !.serverUrl = servers[1].url] ELSE fwd
    /\ UNCHANGED <<agg, gw, merge, eh>>

ReloadConfig ==
    /\ \E config \in ReloadRoutings, servers \in ReloadServers :
          /\ router' = reloadConfig(router, config, servers)
          /\ route' = [route EXCEPT !.generation = NewRouter(config, servers),
                                    !.reloadedAt = IF gw.pc = "forwarding"
                                                   THEN fwd.posts ELSE @]
    /\ UNCHANGED <<fwd, agg, gw, merge, eh>>

NextRouter == RouteRequest \/ ReloadConfig

SpecRouter == InitRouter /\ [][NextRouter]_vars

(***************************************************************************)
(* SpecReload: forwarded gateway calls with reloadConfig calls between   *)
(* their suspension points.                                                *)
(***************************************************************************)
NextReload == HandleRequest \/ Post \/ Sleep \/ ReturnForwarded \/ ReloadConfig

SpecReload == Init /\ [][NextReload]_vars

(***************************************************************************)
(* SpecResolve: resolveMethodConflicts applied to the capability lists of  *)
(* at most MaxMethods entries.                                             *)
(***************************************************************************)
MethodLists ==
    LET MethodNames == {"t1", "t2", "t3", "t2_1", "ns/t3"}
    IN
    LET MethodDescriptions == {NoDescription, GeneratedDescription(Undefined, "A")}
    IN
    LET Methods == [name : MethodNames, description : MethodDescriptions]
    IN
    UNION {[1..n -> Methods] : n \in 0..MaxMethods}

ResolveMethodConflicts ==
    \* the strategies a caller can pass; an omitted one is 'prefix' (line 254)
    LET Strategies == {Undefined, "prefix", "suffix", "keep-first", "keep-last"}
    IN
    /\ merge.pc = "idle"
    /\ \E methods \in MethodLists, given \in Strategies :
          LET strategy == IF given = Undefined THEN "prefix" ELSE given
          IN  merge' = [pc |-> "done", methods |-> methods, strategy |-> strategy,
                        resolved |-> resolveMethodConflicts(methods, strategy)]
    /\ UNCHANGED <<fwd, agg, gw, router, route, eh>>

NextResolve == ResolveMethodConflicts

SpecResolve == Init /\ [][NextResolve]_vars

(***************************************************************************)
(* Properties of one forwardRequest call (SpecForward).                    *)
(***************************************************************************)
RetryableClasses == {"network", "timeout", "5xx"}

\* C1: forwardRequest never throws (the call is always at one of its
\* suspension points or has returned) and the envelope it returns, relayed
\* or synthesized, contains exactly one of `result` and `error`.
C1_ExactlyOneOfResultError ==
    /\ fwd.pc \in {"idle", "post", "sleep", "done"}
    /\ fwd.pc = "done" =>
          /\ fwd.ret.type = "object"
          /\ Has(fwd.ret, "result") # Has(fwd.ret, "error")

\* a reply carrying both result and error was rejected and the call returned
C1_Witness ==
    /\ fwd.pc = "done"
    /\ fwd.posts >= 2
    /\ "malformed" \in {fwd.history[i] : i \in 1..Len(fwd.history)}
    /\ fwd.relayed
    /\ Has(fwd.ret, "error")

\* C2: the number of POSTs of one call never exceeds maxRetries + 1.
C2_AttemptsBounded == fwd.posts <= fwd.opts.maxRetries + 1

C2_Witness ==
    /\ fwd.pc = "done"
    /\ fwd.opts.maxRetries = 4
    /\ fwd.posts = fwd.opts.maxRetries
    /\ ~fwd.relayed

\* C3: an attempt that fails with a 4xx status is never followed by another
\* attempt, and an attempt that fails with a 5xx status, a timeout or a
\* network error is followed by another attempt whenever the retry limit
\* (maxRetries retries after the first attempt) has not yet been reached.
C3_RetryOnlyRetryable ==
    /\ \A i \in 1..(Len(fwd.history) - 1) : fwd.history[i] # "4xx"
    /\ (/\ fwd.pc = "done"
        /\ fwd.history # <<>>
        /\ fwd.history[Len(fwd.history)] \in RetryableClasses)
          => fwd.posts - 1 >= fwd.opts.maxRetries

\* C4: when every attempt fails with a retryable failure, a call whose
\* retry limit is maxRetries = n makes exactly n + 1 attempts before it
\* returns the exhaustion envelope.
C4_ExhaustionAfterNPlusOne ==
    (/\ fwd.pc = "done"
     /\ ~fwd.relayed
     /\ fwd.posts >= 1
     /\ \A i \in 1..Len(fwd.history) : fwd.history[i] \in RetryableClasses)
       => fwd.posts = fwd.opts.maxRetries + 1

\* C5: the synthesized envelope has code -32603, carries the id of the
\* request and its `attempts` field is the number of POSTs actually made.
C5_SynthesizedEnvelope ==
    (fwd.pc = "done" /\ ~fwd.relayed) =>
        /\ fwd.ret.error.code = -32603
        /\ fwd.ret.id = fwd.request.id
        /\ fwd.ret.error.data.attempts = fwd.posts

\* C6: a relayed reply declares version "2.0" and, if it carries an error,
\* the error is an object with numeric code and string message; otherwise
\* the call ends with the synthesized -32603 envelope.
C6_OnlyValidRepliesRelayed ==
    fwd.pc = "done" =>
        IF fwd.relayed
        THEN /\ fwd.ret.jsonrpc = "2.0"
             /\ Has(fwd.ret, "error") =>
                   /\ fwd.ret.error.type = "object"
                   /\ fwd.ret.error.codeType = "number"
                   /\ fwd.ret.error.messageType = "string"
        ELSE /\ fwd.ret.error.code = -32603
             /\ fwd.ret.error.data.serverUrl = fwd.serverUrl

\* a malformed reply was counted as a failed attempt and a later valid reply
\* with a result was relayed
C6_Witness ==
    /\ fwd.pc = "done"
    /\ fwd.relayed
    /\ Has(fwd.ret, "result")
    /\ Len(fwd.history) = 3
    /\ fwd.history[1] = "malformed"
    /\ fwd.history[2] = "malformed"

\* C7: the wait after failed attempt k is min(retryDelay * 2^(k-1), 30000),
\* so waits strictly increase up to the cap and never exceed 30000 ms.
C7_BackoffCapped ==
    \A k \in 1..Len(fwd.waits) :
        /\ fwd.waits[k] = Min(fwd.opts.retryDelay * Pow2(k - 1), 30000)
        /\ fwd.waits[k] <= 30000

\* C9: every attempt of one call posts the same envelope: the id, method
\* and params of the request.
C9_SameEnvelopeEveryAttempt ==
    \A i \in 1..Len(fwd.sent) :
        /\ fwd.sent[i].id = fwd.request.id
        /\ fwd.sent[i].method = fwd.request.method
        /\ fwd.sent[i].params = fwd.request.params

C9_Witness ==
    /\ Len(fwd.sent) >= 3
    /\ fwd.request.id = "2"

(***************************************************************************)
(* Properties of one handleRequest call (SpecGateway).                     *)
(***************************************************************************)
\* C8: for every request handled by handleRequest (forwarded, discovery or
\* failing routing) the id of the returned envelope is the id of the request.
C8_ResponseIdEchoesRequestId ==
    gw.pc = "done" => gw.response.id = gw.request.id

(***************************************************************************)
(* Properties of one aggregation round (SpecAggregate).                    *)
(***************************************************************************)
\* C10: the backend queries of a round run concurrently and independently:
\* every query is launched when the round starts, and when the round is
\* over the outcome list has exactly one outcome per configured backend, in
\* order and under that backend's name, each backend that obtained a result
\* being reported successful with its own capabilities whatever the others did.
C10_OneOutcomePerBackend ==
    /\ agg.pc = "waiting" =>
          \A i \in 1..Len(agg.srv) :
              agg.srv[i].pc = "settled" \/ agg.srv[i].call.pc \in {"post", "sleep"}
    /\ agg.pc = "done" =>
          /\ Len(agg.serverResults) = Len(agg.serverUrls)
          /\ \A i \in 1..Len(agg.serverUrls) :
                /\ i <= Len(agg.serverResults)
                /\ agg.serverResults[i].serverName = agg.serverUrls[i].name
                /\ ResultTruthy(agg.srv[i].response) =>
                      /\ agg.serverResults[i].success
                      /\ agg.serverResults[i].methods =
                            extractMethodsFromResponse(agg.srv[i].response,
                                                       agg.serverUrls[i].name)

\* the first backend failed on every alias, the second one answered
C10_Witness ==
    /\ agg.pc = "done"
    /\ Len(agg.serverUrls) = 2
    /\ Len(agg.serverResults) = 2
    /\ ~agg.serverResults[1].success
    /\ agg.srv[1].calls = 3
    /\ agg.serverResults[2].success
    /\ agg.serverResults[2].serverName = "B"
    /\ Len(agg.serverResults[2].methods) = 1

\* the backends of a finished round that ended with / without a usable reply
Succeeded == {i \in 1..Len(agg.srv) : agg.srv[i].value.success}

Failed == {i \in 1..Len(agg.srv) : ~agg.srv[i].value.success}

RECURSIVE CapabilitiesOf(_, _)
CapabilitiesOf(srv, i) ==
    IF i > Len(srv) THEN <<>>
    ELSE (IF ~ErrorTruthy(srv[i].response) /\ srv[i].response.type = "object"
          THEN extractMethodsFromResponse(srv[i].response, srv[i].serverName)
          ELSE <<>>) \o CapabilitiesOf(srv, i + 1)

\* C11: when at least one backend is configured and every backend fails,
\* the round returns an error envelope with code -32603, whatever the value
\* of continueOnPartialFailure.
C11_TotalOutageIsError ==
    (agg.pc = "done" /\ Len(agg.serverUrls) >= 1 /\ Succeeded = {}) =>
        /\ Has(agg.ret, "error")
        /\ ~Has(agg.ret, "result")
        /\ agg.ret.error.code = -32603

\* C12: with continueOnPartialFailure = true, a round with at least one
\* succeeding and at least one failing backend returns a result envelope
\* whose merged list is built from the capabilities of exactly the
\* succeeding backends, and the per-backend outcomes mark each succeeding
\* backend success = true and each failing backend success = false.
C12_PartialFailureTolerated ==
    (/\ agg.pc = "done"
     /\ agg.opts.continueOnPartialFailure
     /\ \E i \in 1..Len(agg.srv) : ~ErrorTruthy(agg.srv[i].response)
     /\ \E i \in 1..Len(agg.srv) : ErrorTruthy(agg.srv[i].response)) =>
        /\ Has(agg.ret, "result")
        /\ ~Has(agg.ret, "error")
        /\ agg.ret.result.list =
              resolveMethodConflicts(CapabilitiesOf(agg.srv, 1),
                                     agg.opts.conflictResolution)
        /\ Len(agg.serverResults) = Len(agg.srv)
        /\ \A i \in 1..Len(agg.srv) :
              /\ i <= Len(agg.serverResults)
              /\ agg.serverResults[i].success = ~ErrorTruthy(agg.srv[i].response)
        /\ agg.opts.includeServerInfo =>
              agg.ret.result.serverResults = agg.serverResults

\* the first backend answered with one capability, the second one failed
C12_Witness ==
    /\ agg.pc = "done"
    /\ agg.opts.continueOnPartialFailure
    /\ Len(agg.srv) = 2
    /\ ~ErrorTruthy(agg.srv[1].response)
    /\ ErrorTruthy(agg.srv[2].response)
    /\ Has(agg.ret, "result")
    /\ Len(agg.ret.result.list) = 1

\* C13: with continueOnPartialFailure = false, a round in which at least
\* one backend fails returns an error envelope, even when other backends
\* succeeded.
C13_AnyFailureEscalates ==
    (agg.pc = "done" /\ ~agg.opts.continueOnPartialFailure /\ Failed # {}) =>
        Has(agg.ret, "error") /\ ~Has(agg.ret, "result")

\* C14: with continueOnPartialFailure = true the round proceeds with
\* whichever backends succeeded, even when there are none: a round in which
\* no backend succeeds yields a result envelope with an empty merged list.
C14_EmptySuccessSetYieldsEmptyList ==
    (agg.pc = "done" /\ agg.opts.continueOnPartialFailure /\ Succeeded = {}) =>
        /\ Has(agg.ret, "result")
        /\ ~Has(agg.ret, "error")
        /\ agg.ret.result.list = <<>>

\* two backends were queried and both failed on every alias
C14_Witness ==
    /\ agg.pc = "done"
    /\ agg.opts.continueOnPartialFailure
    /\ Len(agg.srv) = 2
    /\ Succeeded = {}
    /\ \A i \in 1..2 : agg.srv[i].calls = 3
    /\ Has(agg.ret, "result")

\* C15: for each backend of a round the discovery aliases are tried strictly
\* in the order tools/list, get_methods, list_tools; no alias is tried after
\* one has returned a result without error; and the backend is marked failed
\* for the round if and only if every alias failed.
C15_AliasOrderAndFirstResult ==
    \A i \in 1..Len(agg.srv) :
        LET s == agg.srv[i]
        IN  /\ Len(s.tried) <= Len(methodNames)
            /\ \A k \in 1..Len(s.tried) :
                  k <= Len(methodNames) /\ s.tried[k] = methodNames[k]
            /\ \A k \in 1..Len(s.returned) :
                  s.returned[k] = "result" => Len(s.tried) = k
            /\ s.pc = "settled" =>
                  (~s.value.success <=>
                      /\ Len(s.returned) = Len(methodNames)
                      /\ \A k \in 1..Len(s.returned) : s.returned[k] = "error")

\* the entries a succeeding backend returned in its capability list
EntriesOf(response) ==
    IF ResultTruthy(response) /\ response.result.shape \in {"tools", "methods", "array"}
    THEN response.result.list ELSE <<>>

RECURSIVE TotalEntries(_, _)
TotalEntries(srv, i) ==
    IF i > Len(srv) THEN 0
    ELSE (IF srv[i].value.success THEN Len(EntriesOf(srv[i].response)) ELSE 0)
         + TotalEntries(srv, i + 1)

\* C19: every entry of a succeeding backend's capability list, including
\* the entries without a name, appears in the merged list, so with the
\* default strategy the length of the merged list and the reported
\* totalMethods equal the number of entries returned by the succeeding
\* backends.
C19_EveryEntryMerged ==
    (/\ agg.pc = "done"
     /\ agg.opts.conflictResolution = "prefix"
     /\ Has(agg.ret, "result")) =>
        /\ Len(agg.ret.result.list) = TotalEntries(agg.srv, 1)
        /\ agg.opts.includeServerInfo =>
              agg.ret.result.aggregationStats.totalMethods = TotalEntries(agg.srv, 1)

(***************************************************************************)
(* Properties of resolveMethodConflicts (SpecResolve).                     *)
(***************************************************************************)
NamesOf(methods) == [i \in 1..Len(methods) |-> methods[i].name]

\* name, or name_k for the smallest k >= 1 such that name_k is not in `used`
SuffixName(name, used, limit) ==
    IF name \notin used THEN name
    ELSE name \o "_" \o ToString(
            CHOOSE k \in 1..limit :
                /\ (name \o "_" \o ToString(k)) \notin used
                /\ \A j \in 1..(k - 1) : (name \o "_" \o ToString(j)) \in used)

C17_PrefixKeepsAll ==
    (merge.pc = "done" /\ merge.strategy = "prefix") =>
        Len(merge.resolved) = Len(merge.methods)

FirstOccurrence(methods, name) ==
    CHOOSE i \in 1..Len(methods) :
        methods[i].name = name /\ \A j \in 1..(i - 1) : methods[j].name # name

LastOccurrence(methods, name) ==
    CHOOSE i \in 1..Len(methods) :
        methods[i].name = name /\ \A j \in (i + 1)..Len(methods) : methods[j].name # name

\* C18: under `keep-first` and `keep-last` the merged list holds exactly one
\* capability per distinct input name: the record of the first occurrence of
\* the name with keep-first, of its last occurrence with keep-last.
C18_KeepFirstKeepLast ==
    (merge.pc = "done" /\ merge.strategy \in {"keep-first", "keep-last"}) =>
        LET names == {merge.methods[i].name : i \in 1..Len(merge.methods)}
        IN  /\ {merge.resolved[i].name : i \in 1..Len(merge.resolved)} = names
            /\ Len(merge.resolved) = Cardinality(names)
            /\ \A i \in 1..Len(merge.resolved) :
                  LET name == merge.resolved[i].name
                  IN  name \in names =>
                        merge.resolved[i] =
                           merge.methods[IF merge.strategy = "keep-first"
                                         THEN FirstOccurrence(merge.methods, name)
                                         ELSE LastOccurrence(merge.methods, name)]

\* a name occurred twice with different records and keep-last kept the second
C18_Witness ==
    /\ merge.pc = "done"
    /\ merge.strategy = "keep-last"
    /\ Len(merge.methods) = 3
    /\ merge.methods[1].name = merge.methods[2].name
    /\ merge.methods[1] # merge.methods[2]
    /\ merge.methods[3].name # merge.methods[1].name
    /\ Len(merge.resolved) = 2
    /\ merge.resolved[1] = merge.methods[2]

(***************************************************************************)
(* Properties of the router (SpecRouter).                                  *)
(***************************************************************************)
\* C20: whatever the order of the reloadConfig and routeRequest calls, the
\* router always holds the rules and the descriptor set of one generation,
\* and every routing decision is the one that generation gives: the rule
\* comes from its rules (or its default) and the address from its
\* descriptor set.
C20_OneGenerationPerDecision ==
    /\ router.config = route.generation.config
    /\ router.servers = route.generation.servers
    /\ route.pc = "done" =>
          /\ route.result = routeRequest(route.used, route.request,
                                         route.requestPath, route.headers)
          /\ route.result.success =>
                /\ \/ route.result.serverName = route.used.config.defaultServer
                   \/ \E key \in DOMAIN route.used.config.rules :
                         route.used.config.rules[key] = route.result.serverName
                /\ \E i \in 1..Len(route.used.servers) :
                      /\ route.used.servers[i].name = route.result.serverName
                      /\ route.used.servers[i].url = route.result.serverUrl

\* a request was routed after a reload that changed both the rules and the
\* address of the backend they name
C20_Witness ==
    /\ route.pc = "done"
    /\ route.used # NewRouter(DefaultConfig.routing, DefaultConfig.servers)
    /\ route.used.config.strategy = "header"
    /\ route.used.servers = <<ServerA2, ServerB>>
    /\ route.result.success
    /\ route.result.serverUrl = "http://a2"

\* the lookup key of a routed request: the first segment of the path after
\* its leading slashes, or the value of the first x-target-mcp header; <<>>
\* when the path or the header is absent or empty
PrefixKey(requestPath) ==
    LET chars == requestPath.chars
        nonSlash == {i \in 1..Len(chars) : chars[i] # "/"}
    IN  IF nonSlash = {} THEN <<>>
        ELSE LET first == CHOOSE i \in nonSlash : \A j \in nonSlash : i <= j
                 stops == {j \in first..Len(chars) : chars[j] = "/"} \cup {Len(chars) + 1}
                 stop == CHOOSE j \in stops : \A k \in stops : j <= k
             IN  SubSeq(chars, first, stop - 1)

HeaderKey(headers) ==
    LET entries == headers.entries
        targets == {i \in 1..Len(entries) : entries[i].name \in TargetHeaderNames}
    IN  IF targets = {} THEN <<>>
        ELSE entries[CHOOSE i \in targets : \A j \in targets : i <= j].value

LookupKey ==
    IF route.used.config.strategy = "prefix"
    THEN PrefixKey(route.requestPath) ELSE HeaderKey(route.headers)

Resolved(servers, serverName) ==
    \E i \in 1..Len(servers) :
        /\ servers[i].name = serverName
        /\ route.result = [serverName |-> serverName, serverUrl |-> servers[i].url,
                           success |-> TRUE, error |-> Undefined]

Configured(servers, serverName) ==
    \E i \in 1..Len(servers) : servers[i].name = serverName

\* C22: under the prefix strategy the lookup key is the first
\* '/'-delimited segment of the path once all leading slashes are removed,
\* and when that key is in the rules the request resolves to the backend the
\* rule names (name and address), whatever segments follow.
C22_PrefixResolvesRule ==
    (/\ route.pc = "done"
     /\ route.used.config.strategy = "prefix"
     /\ PrefixKey(route.requestPath) \in DOMAIN route.used.config.rules
     /\ Configured(route.used.servers,
                   route.used.config.rules[PrefixKey(route.requestPath)])) =>
        Resolved(route.used.servers,
                 route.used.config.rules[PrefixKey(route.requestPath)])

\* the path "//f/g" was routed by the rule for f
C22_Witness ==
    /\ route.pc = "done"
    /\ route.used.config.strategy = "prefix"
    /\ route.requestPath = Path(<<"/", "/", "f", "/", "g">>)
    /\ route.result.success
    /\ route.result.serverName = "B"
    /\ route.result.serverUrl = "http://b"

\* C23: in both strategies, when the lookup key is empty, absent or not in
\* the rules, the request resolves to the default backend if one is
\* configured and fails with "No route found" otherwise; it never fails with
\* "No route found" while a default backend is configured.
C23_DefaultOrNoRoute ==
    (/\ route.pc = "done"
     /\ route.used.config.strategy \in {"prefix", "header"}) =>
        /\ (/\ LookupKey \notin DOMAIN route.used.config.rules
            /\ route.used.config.defaultServer # Undefined
            /\ Configured(route.used.servers, route.used.config.defaultServer)) =>
               Resolved(route.used.servers, route.used.config.defaultServer)
        /\ (/\ LookupKey \notin DOMAIN route.used.config.rules
            /\ route.used.config.defaultServer = Undefined) =>
               (~route.result.success /\ route.result.error = "No route found")
        /\ route.used.config.defaultServer # Undefined =>
               route.result.error # "No route found"

\* C24: under the header strategy the routing header is matched whatever the
\* letter case of its name: the same request with the header name written
\* X-Target-MCP, x-target-mcp or X-target-MCP gets the same routing result.
C24_HeaderNameCaseInsensitive ==
    (/\ route.pc = "done"
     /\ route.used.config.strategy = "header"
     /\ route.headers.type = "object") =>
        \A n \in TargetHeaderNames :
            routeRequest(route.used, route.request, route.requestPath,
                Headers([i \in 1..Len(route.headers.entries) |->
                            IF route.headers.entries[i].name \in TargetHeaderNames
                            THEN [route.headers.entries[i] EXCEPT !.name = n]
                            ELSE route.headers.entries[i]]))
              = route.result

\* the header written X-Target-MCP selected the backend of rule g
C24_Witness ==
    /\ route.pc = "done"
    /\ route.used.config.strategy = "header"
    /\ route.headers = Headers(<<[name |-> "X-Target-MCP", value |-> <<"g">>]>>)
    /\ route.result.success
    /\ route.result.serverName = route.used.config.rules[<<"g">>]
    /\ route.result.serverName # route.used.config.defaultServer

C26_NoFailureEscapes ==
    /\ gw.pc \in {"idle", "aggregating", "forwarding", "done"}
    /\ gw.pc = "done" =>
          /\ gw.response.type = "object"
          /\ gw.response.jsonrpc = "2.0"
          /\ Has(gw.response, "result") # Has(gw.response, "error")

\* the forwarder's promise was rejected after a first POST and the gateway
\* answered with the internal-error envelope
C26_Witness ==
    /\ gw.pc = "done"
    /\ gw.routingResult.success
    /\ fwd.pc # "done"
    /\ fwd.posts >= 1
    /\ Has(gw.response, "error")
    /\ gw.response.error.code = -32603
    /\ gw.response.error.message = "component failure"
    /\ gw.response.id = gw.request.id

(***************************************************************************)
(* Properties of forwarded calls under reloads (SpecReload).               *)
(***************************************************************************)
\* C21: a forwarded call that is in flight when the router is reloaded
\* keeps the backend it resolved before the reload: every POST of the call,
\* the retries after the reload included, goes to the address captured at
\* routing time.
C21_InFlightKeepsBackend ==
    (gw.pc \in {"forwarding", "done"} /\ gw.routingResult.success) =>
        /\ fwd.serverUrl = gw.routingResult.serverUrl
        /\ Len(fwd.urls) = fwd.posts
        /\ \A k \in 1..Len(fwd.urls) : fwd.urls[k] = gw.routingResult.serverUrl

\* a retry was posted after a reload whose snapshot resolves the same request
\* to another address
C21_Witness ==
    /\ gw.pc = "forwarding"
    /\ gw.routingResult.success
    /\ route.reloadedAt >= 1
    /\ fwd.posts > route.reloadedAt
    /\ LET now == routeRequest(router, gw.request, gw.requestPath, gw.headers)
       IN  now.success /\ now.serverUrl # gw.routingResult.serverUrl


(***************************************************************************)
(* Properties of the gateway's routing failures (SpecReload)               *)
(***************************************************************************)
\* C27: when routing of a request fails, the code in the envelope the gateway
\* returns is the code ErrorHandler assigns to that routing failure.
C27_GatewayUsesHandlerCode ==
    (/\ gw.pc = "done"
     /\ gw.request.method # "get_methods"
     /\ ~gw.routingResult.success)
    => gw.response.error.code
         = getErrorCodeForRoutingError(
               RoutingErrorOf(gw.routingResult.error, Undefined))


(***************************************************************************)
(* Properties of ErrorHandler (SpecErrors)                                 *)
(***************************************************************************)
\* the operations that return an error envelope
EnvelopeOps ==
    {"handleRoutingError", "handleDownstreamError", "handleProtocolError",
     "handleValidationError", "handleTimeoutError", "handleRateLimitError"}

\* C28: a routing failure gets -32602 for an invalid strategy and -32601 for no
\* route found and server not found; a downstream failure gets -32602 when the
\* backend status is in [400,500) and -32603 otherwise, no status included;
\* every envelope has an error, no result, and the request id of the context.
C28_CodesByFailureKind ==
    (eh.pc = "done" /\ eh.op \in EnvelopeOps) =>
        /\ eh.op = "handleRoutingError" =>
              /\ eh.error.message = "Invalid routing strategy"
                    => eh.ret.error.code = -32602
              /\ eh.error.message \in {"No route found", "Server not found"}
                    => eh.ret.error.code = -32601
        /\ eh.op = "handleDownstreamError" =>
              eh.ret.error.code =
                  IF eh.error.statusCode # NoStatus
                     /\ 400 <= eh.error.statusCode /\ eh.error.statusCode < 500
                  THEN -32602 ELSE -32603
        /\ Has(eh.ret, "error") /\ eh.ret.error.type = "object"
        /\ ~Has(eh.ret, "result") /\ eh.ret.result = NoResult
        /\ eh.ret.id = eh.context.requestId

C28_Witness ==
    /\ eh.pc = "done" /\ eh.op = "handleDownstreamError"
    /\ eh.error.statusCode = 503 /\ eh.ret.error.code = -32603
    /\ eh.context.requestId = "1" /\ eh.ret.id = "1"

\* the value with the marker under every sensitive key at every depth and
\* everything else as it was
RECURSIVE Redacted(_)
Redacted(data) ==
    IF data.type = "object"
    THEN Obj([i \in 1..Len(data.fields) |->
                IF IsSensitiveKey(data.fields[i][1])
                THEN <<data.fields[i][1], Str("[REDACTED]")>>
                ELSE <<data.fields[i][1], Redacted(data.fields[i][2])>>])
    ELSE IF data.type = "array"
    THEN Arr([i \in 1..Len(data.items) |-> Redacted(data.items[i])])
    ELSE data

RECURSIVE HasArray(_)
HasArray(data) ==
    \/ data.type = "array"
    \/ /\ data.type = "object"
       /\ \E i \in 1..Len(data.fields) :
             ~IsSensitiveKey(data.fields[i][1]) /\ HasArray(data.fields[i][2])

\* C29: sanitizeErrorData puts the redaction marker under every sensitive key
\* at every nesting depth and leaves the value of every other key unchanged.
C29_RedactsAndKeepsTheRest ==
    (eh.pc = "done" /\ eh.op = "sanitizeErrorData") => eh.out = Redacted(eh.data)

\* the same for data that holds no array outside a sensitive key
SanitizeExactWithoutArrays ==
    (eh.pc = "done" /\ eh.op = "sanitizeErrorData" /\ ~HasArray(eh.data))
        => eh.out = Redacted(eh.data)


\* every value under a sensitive key, at every depth, is the marker
RECURSIVE FullyRedacted(_)
FullyRedacted(data) ==
    IF data.type = "object"
    THEN \A i \in 1..Len(data.fields) :
            IF IsSensitiveKey(data.fields[i][1])
            THEN data.fields[i][2] = Str("[REDACTED]")
            ELSE FullyRedacted(data.fields[i][2])
    ELSE IF data.type = "array"
    THEN \A i \in 1..Len(data.items) : FullyRedacted(data.items[i])
    ELSE TRUE

\* C30: whenever a backend's response data is placed in an error envelope
\* (handleDownstreamError's serverResponse), every value under a sensitive key
\* in it has been replaced by the redaction marker.
C30_NoUnredactedPayload ==
    (/\ eh.pc = "done" /\ eh.op = "handleDownstreamError"
     /\ eh.ret.error.data.serverResponse # NoValue)
    => FullyRedacted(eh.ret.error.data.serverResponse)


(***************************************************************************)
(* Properties of discovery requests at the gateway (SpecGateway)           *)
(***************************************************************************)
\* C31: a get_methods request is answered by the aggregator over all the
\* configured backends and is neither routed nor forwarded to one backend,
\* whatever its path and headers; any other request never reaches the
\* aggregator.
C31_DiscoveryGoesToAggregator ==
    gw.pc # "idle" =>
        IF gw.request.method = "get_methods"
        THEN /\ agg.pc # "idle"
             /\ Len(agg.serverUrls) = Len(gw.config.servers)
             /\ \A i \in 1..Len(gw.config.servers) :
                    /\ agg.serverUrls[i].name = gw.config.servers[i].name
                    /\ agg.serverUrls[i].url = gw.config.servers[i].url
             /\ gw.routingResult = RoutingFailure(Undefined)
             /\ fwd.pc = "idle" /\ fwd.posts = 0
             /\ gw.pc = "done" => gw.response = agg.ret
        ELSE /\ agg.pc = "idle"
             /\ gw.routingResult # RoutingFailure(Undefined)

C31_Witness ==
    /\ gw.pc = "done" /\ gw.request.method = "get_methods"
    /\ gw.requestPath = Path(<<"/", "g", "/", "x">>)
    /\ Len(gw.config.servers) = 2
    /\ gw.response = agg.ret /\ Has(gw.response, "result")


(***************************************************************************)
(* Properties of the time an aggregation round takes (SpecAggregate)       *)
(***************************************************************************)
RECURSIVE SumSeq(_)
SumSeq(seq) == IF seq = <<>> THEN 0 ELSE Head(seq) + SumSeq(Tail(seq))

\* the backoff waits a forwardRequest call has sat through: a lower bound of
\* the time that has passed since the round began
SleptFor(call) ==
    IF call.pc = "sleep" THEN SumSeq(SubSeq(call.waits, 1, Len(call.waits) - 1))
    ELSE SumSeq(call.waits)

\* C32: the round has an overall timeout of its own; once it has elapsed the
\* round no longer waits for backend queries that are retrying or outstanding.
C32_RoundEndsAtOverallTimeout ==
    agg.pc = "waiting" =>
        \A i \in 1..Len(agg.srv) :
            agg.srv[i].pc = "running" => SleptFor(agg.srv[i].call) <= agg.opts.timeout


(***************************************************************************)
(* Properties of the retry policies of ErrorHandler                        *)
(***************************************************************************)
\* C33: getRetryDelay(attempt, base) is min(base * 2^(attempt-1), 30000) for
\* every attempt >= 1; with base 1000 it is 1000, 2000, 4000, 8000, ... and
\* 30000 once the doubling passes the cap; it never decreases with the
\* attempt and never exceeds 30000.
C33_RetryDelayCapped ==
    (eh.pc = "done" /\ eh.op = "getRetryDelay") =>
        LET attempt == eh.data.items[1].value
            base == eh.data.items[2].value
            doubled == base * 2 ^ (attempt - 1)
        IN  /\ eh.out.value = IF doubled <= 30000 THEN doubled ELSE 30000
            /\ eh.out.value <= 30000
            /\ attempt > 1 => getRetryDelay(attempt - 1, base) <= eh.out.value
            /\ (base = 1000 /\ attempt <= 6) =>
                  eh.out.value = <<1000, 2000, 4000, 8000, 16000, 30000>>[attempt]

C33_Witness ==
    /\ eh.pc = "done" /\ eh.op = "getRetryDelay"
    /\ eh.data = Arr(<<Num(6), Num(1000)>>)
    /\ eh.out = Num(30000)


\* the last failed attempt of the call as ErrorHandler sees it: a
\* DownstreamError with the backend's status (a status of its class) for a
\* failed POST, a plain Error for a malformed reply
LastFailure ==
    LET class == fwd.history[Len(fwd.history)]
    IN  IF class = "malformed" THEN RoutingErrorOf(fwd.lastError, Undefined)
        ELSE DownstreamErrorOf(fwd.lastError,
                 CASE class = "5xx" -> 500 [] class = "4xx" -> 400
                   [] class = "3xx" -> 302 [] OTHER -> NoStatus,
                 NoValue)

\* C34: after a failed attempt the forwarder goes on to another attempt, when
\* the limit allows, if and only if isRetryableError classifies the failure
\* as retryable.
C34_RetriesWhatHandlerRetries ==
    /\ fwd.pc = "sleep" => isRetryableError(LastFailure)
    /\ (fwd.pc = "done" /\ ~fwd.relayed /\ fwd.history # <<>>
                       /\ Len(fwd.history) < fwd.opts.maxRetries)
          => ~isRetryableError(LastFailure)


(***************************************************************************)
(* Properties of the options of a forwardRequest call (SpecConstruct)      *)
(***************************************************************************)
\* C37: the retry limit, base delay and attempt timeout in force for a call
\* are the per-call options when given, otherwise the options the forwarder
\* was constructed with, otherwise the defaults (3, 1000, 30000).
C37_OptionPrecedence ==
    fwd.pc \in {"post", "sleep", "done"} =>
        \A k \in {"maxRetries", "retryDelay", "timeout"} :
            fwd.opts[k] =
                IF k \in DOMAIN fwd.options THEN fwd.options[k]
                ELSE IF k \in DOMAIN fwd.constructed THEN fwd.constructed[k]
                ELSE [maxRetries |-> 3, retryDelay |-> 1000, timeout |-> 30000][k]


(***************************************************************************)
(* Properties of resolveMethodConflicts under every strategy (SpecResolve) *)
(***************************************************************************)
\* how many entries of `methods` carry the description
WithDescription(methods, description) ==
    Cardinality({i \in 1..Len(methods) : methods[i].description = description})

\* C38: under every strategy the names of the returned list are pairwise
\* distinct, and every returned capability is one of the input capabilities
\* up to its name: nothing is invented.
C38_DistinctNamesNothingInvented ==
    merge.pc = "done" =>
        /\ \A i, j \in 1..Len(merge.resolved) :
              i # j => merge.resolved[i].name # merge.resolved[j].name
        /\ Len(merge.resolved) <= Len(merge.methods)
        /\ \A i \in 1..Len(merge.resolved) :
              /\ DOMAIN merge.resolved[i] = {"name", "description"}
              /\ WithDescription(merge.resolved, merge.resolved[i].description)
                    <= WithDescription(merge.methods, merge.resolved[i].description)

C38_Witness ==
    /\ merge.pc = "done"
    /\ merge.strategy = "prefix"
    /\ Len(merge.methods) = 3
    /\ merge.methods[1].name = merge.methods[2].name
    /\ merge.methods[2].name = merge.methods[3].name
    /\ Len(merge.resolved) = 3
    /\ merge.resolved[1] = merge.methods[1]
    /\ merge.resolved[2].name # merge.methods[2].name


(***************************************************************************)
(* Properties of routing on validated configurations (SpecRouter)          *)
(***************************************************************************)
\* C39: on a configuration that validateConfig accepts, routeRequest never
\* fails with "Server not found" or "Invalid routing strategy", whatever the
\* path and the headers.
C39_ValidatedConfigRoutes ==
    (/\ route.pc = "done"
     /\ validateConfig([servers |-> route.used.servers, routing |-> route.used.config]))
    => route.result.error \notin {"Server not found", "Invalid routing strategy"}

\* the same for lookup keys that name no member of Object.prototype
ValidatedConfigRoutesOwnKeys ==
    (/\ route.pc = "done"
     /\ validateConfig([servers |-> route.used.servers, routing |-> route.used.config])
     /\ LookupKey \notin ObjectPrototypeKeys)
    => route.result.error \notin {"Server not found", "Invalid routing strategy"}


(***************************************************************************)
(* Properties of the shape of sanitized data (SpecErrors)                  *)
(***************************************************************************)
\* `output` has the keys of `input` at every level, an array of the same
\* length wherever `input` has an array, and the primitives of `input`;
\* values under sensitive keys are not compared
RECURSIVE SameStructure(_, _)
SameStructure(input, output) ==
    IF input.type = "object"
    THEN /\ output.type = "object"
         /\ Len(output.fields) = Len(input.fields)
         /\ \A i \in 1..Len(input.fields) :
               /\ output.fields[i][1] = input.fields[i][1]
               /\ IsSensitiveKey(input.fields[i][1])
                    \/ SameStructure(input.fields[i][2], output.fields[i][2])
    ELSE IF input.type = "array"
    THEN /\ output.type = "array"
         /\ Len(output.items) = Len(input.items)
         /\ \A i \in 1..Len(input.items) : SameStructure(input.items[i], output.items[i])
    ELSE output = input

\* C35: sanitizeErrorData preserves the structure of its input: the same keys
\* at every level, every array still an array of the same length, primitives
\* (null included) unchanged; only values under sensitive keys differ.
C35_StructurePreserved ==
    (eh.pc = "done" /\ eh.op = "sanitizeErrorData") => SameStructure(eh.data, eh.out)


(***************************************************************************)
(* Properties of the order of arrival in a round (SpecAggregate)           *)
(***************************************************************************)
\* the capabilities of the backends that succeeded, in configured order
RECURSIVE MethodsInOrder(_, _)
MethodsInOrder(srv, i) ==
    IF i > Len(srv) THEN <<>>
    ELSE (IF srv[i].value.success THEN srv[i].value.methods ELSE <<>>)
         \o MethodsInOrder(srv, i + 1)

\* C36: the merged list and the per-backend outcome list of a round follow
\* from the configured backend order and the backends' replies alone,
\* whatever the order in which the replies arrive, under every strategy.
C36_ArrivalOrderIrrelevant ==
    agg.pc = "done" =>
        /\ Len(agg.serverResults) = Len(agg.srv)
        /\ \A i \in 1..Len(agg.srv) :
              i <= Len(agg.serverResults) => agg.serverResults[i] = agg.srv[i].value
        /\ Has(agg.ret, "result") =>
              agg.ret.result.list =
                  resolveMethodConflicts(MethodsInOrder(agg.srv, 1),
                                         agg.opts.conflictResolution)

C36_Witness ==
    /\ agg.pc = "done"
    /\ agg.arrived = <<2, 1>>
    /\ agg.srv[1].value.success /\ agg.srv[2].value.success
    /\ Len(agg.srv[1].value.methods) = 1 /\ Len(agg.srv[2].value.methods) = 1
    /\ agg.srv[1].value.methods # agg.srv[2].value.methods
    /\ Len(agg.ret.result.list) = 2
    /\ agg.ret.result.list[1] = agg.srv[1].value.methods[1]


(***************************************************************************)
(* Termination (SpecLive)                                                  *)
(***************************************************************************)
\* C40: every forwardRequest call eventually returns, and every round
\* eventually returns, after at most 3 aliases x (retry limit) attempts per
\* backend.
C40_CallsAndRoundsReturn ==
    /\ (fwd.pc \in {"post", "sleep"}) ~> (fwd.pc = "done")
    /\ (agg.pc = "waiting") ~> (agg.pc = "done")
    /\ [](\A i \in 1..Len(agg.srv) :
            /\ agg.srv[i].calls <= Len(methodNames)
            /\ agg.srv[i].call.posts <= agg.srv[i].call.opts.maxRetries)

C40_Witness ==
    /\ agg.pc = "done"
    /\ Len(agg.srv) = 2
    /\ agg.srv[1].calls = 3 /\ agg.srv[2].calls = 3
    /\ ~agg.srv[1].value.success

====
